---- MODULE Spec2Model ----
(***************************************************************************)
(* Gross-to-Net waterfall pipeline: the row validator / normalizer         *)
(* (validateAndNormalize) with its parsing helpers and header resolver,    *)
(* and the totals and the scenario panel of the waterfall page.  Five      *)
(* specifications: Spec validates an uploaded sheet, CallSpec calls one    *)
(* helper on one argument, WaterfallSpec renders the page over the stored  *)
(* rows, ScenarioSpec moves the sliders of the rendered page and resets    *)
(* them, AdjSpec computes one scenario for one vector of fractions.        *)
(*                                                                         *)
(* Representation.  A spreadsheet cell is a tagged value: a string, a      *)
(* number, or undefined/null.  Strings are TLA+ strings, read character by *)
(* character with Len and SubSeq.  A JavaScript number is modelled in      *)
(* fixed point as an integer count of 1/Scale units, so that decimal       *)
(* amounts such as 1234.56 are exact; cells carry at most two fractional   *)
(* digits.  A warning or error message is modelled by a record holding the *)
(* message's kind and the values interpolated into its text.               *)
(***************************************************************************)
EXTENDS Integers, Sequences, FiniteSets, TLC

\* One unit of currency in the fixed-point representation of `number`.
Scale == 100

(***************************************************************************)
(* Characters and strings                                                  *)
(***************************************************************************)
\* s[i] (1-based); "" outside the string, where no character class matches
Ch(s, i) == IF i >= 1 /\ i <= Len(s) THEN SubSeq(s, i, i) ELSE ""

Digits == {"0", "1", "2", "3", "4", "5", "6", "7", "8", "9"}

IsDigit(c) == c \in Digits

DigitVal(c) ==
  CASE c = "0" -> 0 [] c = "1" -> 1 [] c = "2" -> 2 [] c = "3" -> 3 [] c = "4" -> 4
    [] c = "5" -> 5 [] c = "6" -> 6 [] c = "7" -> 7 [] c = "8" -> 8 [] c = "9" -> 9

DigitChar(d) == Ch("0123456789", d + 1)

Lower == "abcdefghijklmnopqrstuvwxyz"

LowerSet == {Ch(Lower, i) : i \in 1..26}

Upper == "ABCDEFGHIJKLMNOPQRSTUVWXYZ"

UpperSet == {Ch(Upper, i) : i \in 1..26}

IsUpper(c) == c \in UpperSet

IsSpace(c) == c \in {" ", "\t", "\n"}

LowerOf == [c \in UpperSet |-> Ch(Lower, CHOOSE i \in 1..26 : Ch(Upper, i) = c)]

\* String.prototype.toLowerCase, one character
LowerCh(c) == IF IsUpper(c) THEN LowerOf[c] ELSE c

AllDigits(s) == \A i \in 1..Len(s) : IsDigit(Ch(s, i))

\* s.replace(/[^K]/g, "") for a character class K given as a set: keep K only
RECURSIVE KeepChars(_, _)
KeepChars(s, K) ==
  IF Len(s) = 0 THEN ""
  ELSE (IF Ch(s, 1) \in K THEN Ch(s, 1) ELSE "") \o KeepChars(SubSeq(s, 2, Len(s)), K)

\* s.replace(/[K]/g, ""): drop every character of K
RECURSIVE DropChars(_, _)
DropChars(s, K) ==
  IF Len(s) = 0 THEN ""
  ELSE (IF Ch(s, 1) \in K THEN "" ELSE Ch(s, 1)) \o DropChars(SubSeq(s, 2, Len(s)), K)

\* String.prototype.toLowerCase
RECURSIVE ToLowerCase(_)
ToLowerCase(s) ==
  IF Len(s) = 0 THEN "" ELSE LowerCh(Ch(s, 1)) \o ToLowerCase(SubSeq(s, 2, Len(s)))

\* String.prototype.trim
RECURSIVE TrimLeft(_)
TrimLeft(s) ==
  IF Len(s) > 0 /\ IsSpace(Ch(s, 1)) THEN TrimLeft(SubSeq(s, 2, Len(s))) ELSE s

RECURSIVE TrimRight(_)
TrimRight(s) ==
  IF Len(s) > 0 /\ IsSpace(Ch(s, Len(s))) THEN TrimRight(SubSeq(s, 1, Len(s) - 1)) ELSE s

Trim(s) == TrimRight(TrimLeft(s))

\* String.prototype.indexOf / lastIndexOf for one character, 1-based, 0 when absent
IndexOf(s, c) ==
  IF \E i \in 1..Len(s) : Ch(s, i) = c
  THEN CHOOSE i \in 1..Len(s) : Ch(s, i) = c /\ \A j \in 1..(i - 1) : Ch(s, j) # c
  ELSE 0

LastIndexOf(s, c) ==
  IF \E i \in 1..Len(s) : Ch(s, i) = c
  THEN CHOOSE i \in 1..Len(s) : Ch(s, i) = c /\ \A j \in (i + 1)..Len(s) : Ch(s, j) # c
  ELSE 0

\* s.replace(/c/g, "")
Remove(s, c) == DropChars(s, {c})

\* fault variant: the decimal comma is not turned into a point
ReplaceFirst_Unchanged(s, c, d) == s

\* s.replace(c, d): the first occurrence only
ReplaceFirst(s, c, d) ==
  LET i == IndexOf(s, c)
  IN IF i = 0 THEN s ELSE SubSeq(s, 1, i - 1) \o d \o SubSeq(s, i + 1, Len(s))

RECURSIVE Pow10(_)
Pow10(k) == IF k = 0 THEN 1 ELSE 10 * Pow10(k - 1)

\* value of a string of decimal digits ("" is 0)
RECURSIVE DigitsVal(_)
DigitsVal(s) ==
  IF Len(s) = 0 THEN 0
  ELSE 10 * DigitsVal(SubSeq(s, 1, Len(s) - 1)) + DigitVal(Ch(s, Len(s)))

RECURSIVE NatToString(_)
NatToString(n) ==
  IF n < 10 THEN DigitChar(n) ELSE NatToString(n \div 10) \o DigitChar(n % 10)

Abs(x) == IF x < 0 THEN -x ELSE x

Max(a, b) == IF a >= b THEN a ELSE b

(***************************************************************************)
(* Cell values (the `any` of Record<string, any>)                          *)
(***************************************************************************)
StrCell(s) == [t |-> "string", s |-> s, n |-> 0]

\* a finite number, given in 1/Scale units
NumCell(n) == [t |-> "number", s |-> "", n |-> n]

\* a non-finite number (NaN)
NaNCell == [t |-> "nan", s |-> "", n |-> 0]

\* undefined or null: a blank cell, or a key the row does not have
Undefined == [t |-> "undefined", s |-> "", n |-> 0]

\* Number.prototype.toString for a fixed-point number
NumToString(n) ==
  LET a == Abs(n)
      ip == NatToString(a \div Scale)
      f == a % Scale
      fp == IF f = 0 THEN ""
            ELSE IF f % 10 = 0 THEN "." \o DigitChar(f \div 10)
            ELSE "." \o DigitChar(f \div 10) \o DigitChar(f % 10)
  IN (IF n < 0 THEN "-" ELSE "") \o ip \o fp

\* String(v)
JSString(v) ==
  CASE v.t = "string" -> v.s
    [] v.t = "number" -> NumToString(v.n)
    [] v.t = "nan" -> "NaN"
    [] OTHER -> "undefined"

(***************************************************************************)
(* parseNumber                                                             *)
(***************************************************************************)
\* Number(s) is not NaN, for s over digits, "," "." and "-"
IsNumeric(s) ==
  LET b == IF Len(s) > 0 /\ Ch(s, 1) = "-" THEN SubSeq(s, 2, Len(s)) ELSE s
  IN \/ s = ""
     \/ /\ \A i \in 1..Len(b) : IsDigit(Ch(b, i)) \/ Ch(b, i) = "."
        /\ Cardinality({i \in 1..Len(b) : Ch(b, i) = "."}) <= 1
        /\ \E i \in 1..Len(b) : IsDigit(Ch(b, i))

\* Number(s) in 1/Scale units, for IsNumeric(s)
NumberVal(s) ==
  LET negative == Len(s) > 0 /\ Ch(s, 1) = "-"
      b == IF negative THEN SubSeq(s, 2, Len(s)) ELSE s
      dot == IndexOf(b, ".")
      ip == IF dot = 0 THEN b ELSE SubSeq(b, 1, dot - 1)
      fp == IF dot = 0 THEN "" ELSE SubSeq(b, dot + 1, Len(b))
      a == DigitsVal(ip) * Scale + (DigitsVal(fp) * Scale) \div Pow10(Len(fp))
  IN IF negative THEN -a ELSE a

\* fault variant: an unparseable residue yields the number its digits spell
FiniteOrZero_DigitsOfResidue(s, neg) ==
  IF IsNumeric(s) THEN (IF neg THEN -NumberVal(s) ELSE NumberVal(s))
  ELSE DigitsVal(KeepChars(s, Digits)) * Scale

\* const n = Number(s); return Number.isFinite(n) ? (neg ? -n : n) : 0
FiniteOrZero(s, neg) ==
  IF IsNumeric(s) THEN (IF neg THEN -NumberVal(s) ELSE NumberVal(s)) ELSE 0

\* fault variant: no notation is taken as grouped
Grouped_Never(s, S, D) == FALSE

\* /^\d{1,3}(S\d{3})+(D\d+)?$/ for a thousands separator S and a decimal mark D
Grouped(s, S, D) ==
  LET d == IndexOf(s, D)
      ip == IF d = 0 THEN s ELSE SubSeq(s, 1, d - 1)
      fp == IF d = 0 THEN "" ELSE SubSeq(s, d + 1, Len(s))
      k == IndexOf(ip, S)
  IN /\ d # 0 => (Len(fp) >= 1 /\ AllDigits(fp))
     /\ k \in 2..4
     /\ (Len(ip) - k + 1) % 4 = 0
     /\ \A i \in 1..Len(ip) :
          IF i >= k /\ (i - k) % 4 = 0 THEN Ch(ip, i) = S ELSE IsDigit(Ch(ip, i))

NumChars == Digits \cup {",", ".", "-"}

parseNumber(v) ==
  IF v.t = "undefined" \/ (v.t = "string" /\ v.s = "") THEN 0
  ELSE IF v.t = "number" THEN v.n
  ELSE
    LET s0 == Trim(JSString(v))
        neg == Len(s0) >= 2 /\ Ch(s0, 1) = "(" /\ Ch(s0, Len(s0)) = ")"
        s1 == IF neg THEN SubSeq(s0, 2, Len(s0) - 1) ELSE s0
        s == KeepChars(s1, NumChars)
        lastComma == LastIndexOf(s, ",")
        lastDot == LastIndexOf(s, ".")
    IN IF Grouped(s, ".", ",")
         THEN FiniteOrZero(ReplaceFirst(Remove(s, "."), ",", "."), neg)
       ELSE IF Grouped(s, ",", ".")
         THEN FiniteOrZero(Remove(s, ","), neg)
       ELSE IF lastComma > lastDot
         THEN FiniteOrZero(ReplaceFirst(Remove(s, "."), ",", "."), neg)
       ELSE FiniteOrZero(Remove(s, ","), neg)

(***************************************************************************)
(* excelSerialToISO, normalizePeriod                                       *)
(***************************************************************************)
\* String(n).padStart(2, "0") for a natural n
Pad2(n) == IF n < 10 THEN "0" \o NatToString(n) ELSE NatToString(n)

\* getUTCFullYear / getUTCMonth + 1 of the day `days` after 1970-01-01
CivilFromDays(days) ==
  LET z == days + 719468
      era == z \div 146097
      doe == z - era * 146097
      yoe == (doe - doe \div 1460 + doe \div 36524 - doe \div 146096) \div 365
      doy == doe - (365 * yoe + yoe \div 4 - yoe \div 100)
      mp == (5 * doy + 2) \div 153
      m == IF mp < 10 THEN mp + 3 ELSE mp - 9
      y == yoe + era * 400 + (IF m <= 2 THEN 1 ELSE 0)
  IN [y |-> y, m |-> m]

\* serial is a fixed-point number of days since 1899-12-30
excelSerialToISO(serial) ==
  LET d == CivilFromDays((serial - 25569 * Scale) \div Scale)
  IN NatToString(d.y) \o "-" \o Pad2(d.m)

\* the leftmost of the indices at which a pattern matches, else 0
FirstMatch(matches) ==
  IF matches = {} THEN 0 ELSE CHOOSE i \in matches : \A j \in matches : i <= j

\* the indices at which a match of s can start
Starts(s) == 1..(Len(s) + 1)

\* 20\d{2} at index i
Year20At(s, i) ==
  Ch(s, i) = "2" /\ Ch(s, i + 1) = "0" /\ IsDigit(Ch(s, i + 2)) /\ IsDigit(Ch(s, i + 3))

IsSep(c) == c \in {"/", "-"}

\* fault variant: only the upper-case quarter marker is recognized
IsQ_UpperOnly(c) == c = "Q"

IsQ(c) == c \in {"Q", "q"}

IsQuarter(c) == c \in {"1", "2", "3", "4"}

\* index after \s* matched greedily from index i
RECURSIVE SkipSpaces(_, _)
SkipSpaces(s, i) == IF IsSpace(Ch(s, i)) THEN SkipSpaces(s, i + 1) ELSE i

\* index of [Qq] after \s*[-\/]?\s* matched from index i
QAfter(s, i) ==
  LET j == SkipSpaces(s, i)
  IN SkipSpaces(s, IF IsSep(Ch(s, j)) THEN j + 1 ELSE j)

PeriodChars == Digits \cup LowerSet \cup UpperSet \cup {"-", "/", " ", "\t", "\n"}

\* fault variant: the warning cites the 0-based loop index instead of the sheet row
PeriodWarning_ZeroBased(rowIdx, v) ==
  [kind |-> "period", row |-> rowIdx - 2, value |-> JSString(v), fields |-> <<>>, amount |-> 0, expected |-> 0]

\* the warning pushed for an unrecognized period: row number and String(v)
PeriodWarning(rowIdx, v) == [kind |-> "period", row |-> rowIdx, value |-> JSString(v), fields |-> <<>>, amount |-> 0, expected |-> 0]

\* returns the period string and the warnings list after the call
normalizePeriod(v, warnings, rowIdx) ==
  IF v.t = "number" /\ v.n > 20000 * Scale
  THEN [value |-> excelSerialToISO(v.n), warnings |-> warnings]
  ELSE
    LET s0 == Trim(IF v.t = "undefined" THEN "" ELSE JSString(v))
        s == KeepChars(s0, PeriodChars)
        \* /(20\d{2})[\/\-](\d{1,2})/
        P1(i) == Year20At(s, i) /\ IsSep(Ch(s, i + 4)) /\ IsDigit(Ch(s, i + 5))
        m1 == FirstMatch({i \in Starts(s) : P1(i)})
        \* /(\d{1,2})[\/\-](20\d{2})/
        P2a(i) == IsDigit(Ch(s, i)) /\ IsDigit(Ch(s, i + 1)) /\ IsSep(Ch(s, i + 2)) /\ Year20At(s, i + 3)
        P2b(i) == IsDigit(Ch(s, i)) /\ IsSep(Ch(s, i + 1)) /\ Year20At(s, i + 2)
        P2(i) == P2a(i) \/ P2b(i)
        m2 == FirstMatch({i \in Starts(s) : P2(i)})
        \* /(20\d{2})(\d{2})$/
        m3 == Len(s) - 5
        P3 == Year20At(s, m3) /\ IsDigit(Ch(s, m3 + 4)) /\ IsDigit(Ch(s, m3 + 5))
        \* /(20\d{2})\s*[-\/]?\s*[Qq]([1-4])/
        P4(i) == Year20At(s, i) /\ IsQ(Ch(s, QAfter(s, i + 4))) /\ IsQuarter(Ch(s, QAfter(s, i + 4) + 1))
        m4 == FirstMatch({i \in Starts(s) : P4(i)})
        \* /[Qq]([1-4])\s*(20\d{2})/
        P5(i) == IsQ(Ch(s, i)) /\ IsQuarter(Ch(s, i + 1)) /\ Year20At(s, SkipSpaces(s, i + 2))
        m5 == FirstMatch({i \in Starts(s) : P5(i)})
    IN IF s0 = "" THEN [value |-> "", warnings |-> warnings]
       ELSE IF m1 # 0 THEN
         [value |-> SubSeq(s, m1, m1 + 3) \o "-" \o
                    Pad2(DigitsVal(IF IsDigit(Ch(s, m1 + 6)) THEN SubSeq(s, m1 + 5, m1 + 6) ELSE Ch(s, m1 + 5))),
          warnings |-> warnings]
       ELSE IF m2 # 0 THEN
         [value |-> (IF P2a(m2) THEN SubSeq(s, m2 + 3, m2 + 6) ELSE SubSeq(s, m2 + 2, m2 + 5)) \o "-" \o
                    Pad2(DigitsVal(IF P2a(m2) THEN SubSeq(s, m2, m2 + 1) ELSE Ch(s, m2))),
          warnings |-> warnings]
       ELSE IF P3 THEN
         [value |-> SubSeq(s, m3, m3 + 3) \o "-" \o SubSeq(s, m3 + 4, m3 + 5), warnings |-> warnings]
       ELSE IF m4 # 0 THEN
         [value |-> SubSeq(s, m4, m4 + 3) \o "-Q" \o Ch(s, QAfter(s, m4 + 4) + 1), warnings |-> warnings]
       ELSE IF m5 # 0 THEN
         [value |-> SubSeq(s, SkipSpaces(s, m5 + 2), SkipSpaces(s, m5 + 2) + 3) \o "-Q" \o Ch(s, m5 + 1),
          warnings |-> warnings]
       ELSE [value |-> Trim(JSString(v)), warnings |-> Append(warnings, PeriodWarning(rowIdx, v))]

(***************************************************************************)
(* Header canon and alias tables                                           *)
(***************************************************************************)
\* s.toLowerCase().replace(/\s+/g, "").replace(/[^a-z0-9]/g, "")
AlnumChars == LowerSet \cup Digits

CANON(s) == KeepChars(DropChars(ToLowerCase(s), {" ", "\t", "\n"}), AlnumChars)

STR_FIELDS == [
  pg |-> <<"productgroupname", "productgroup", "pg", "groep", "productgroep">>,
  sku |-> <<"skuname", "sku", "material", "product", "artikel", "productnaam">>,
  cust |-> <<"customernamesoldto", "customer", "soldto", "klant", "klantnaam", "debiteur">>,
  period |-> <<"fiscalyearperiod", "fiscalperiod", "fyperiod", "period", "maand", "yyyy-mm", "mm-yyyy", "yyyyq", "qyyyy">>
]

NUM_FIELD_DEFS == <<
  [id |-> "gross", group |-> "core",
   aliases |-> <<"grosssales", "gross", "grossrevenue", "brutoomzet", "sumofgrosssales">>],
  [id |-> "d_channel", group |-> "discount",
   aliases |-> <<"channeldiscounts", "channeldiscount", "channel", "kortingkanaal", "sumofchanneldiscounts">>],
  [id |-> "d_customer", group |-> "discount",
   aliases |-> <<"customerdiscounts", "customerdiscount", "customer", "kortingklant", "sumofcustomerdiscounts">>],
  [id |-> "d_product", group |-> "discount",
   aliases |-> <<"productdiscounts", "productdiscount", "product", "kortingproduct", "sumofproductdiscounts">>],
  [id |-> "d_volume", group |-> "discount",
   aliases |-> <<"volumediscounts", "volumediscount", "volume", "kortingvolume", "sumofvolumediscounts">>],
  [id |-> "d_value", group |-> "discount",
   aliases |-> <<"valuediscounts", "valuediscount", "value", "kortingwaarde", "sumofvaluediscounts">>],
  [id |-> "d_other_sales", group |-> "discount",
   aliases |-> <<"othersalesdiscounts", "othersalesdiscount", "otherdiscounts", "overigekortingen", "sumofothersalesdiscounts">>],
  [id |-> "d_mandatory", group |-> "discount",
   aliases |-> <<"mandatorydiscounts", "mandatorydiscount", "verplichtekorting", "sumofmandatorydiscounts">>],
  [id |-> "d_local", group |-> "discount",
   aliases |-> <<"discountlocal", "locdiscount", "localkorting", "sumofdiscountlocal">>],
  [id |-> "invoiced", group |-> "core",
   aliases |-> <<"invoicedsales", "invoiced", "factuuromzet", "sumofinvoicedsales">>],
  [id |-> "r_direct", group |-> "rebate",
   aliases |-> <<"directrebates", "directrebate", "direct", "sumofdirectrebates">>],
  [id |-> "r_prompt", group |-> "rebate",
   aliases |-> <<"promptpaymentrebates", "promptpayment", "prompt", "betalingskorting", "sumofpromptpaymentrebates">>],
  [id |-> "r_indirect", group |-> "rebate",
   aliases |-> <<"indirectrebates", "indirectrebate", "indirect", "sumofindirectrebates">>],
  [id |-> "r_mandatory", group |-> "rebate",
   aliases |-> <<"mandatoryrebates", "mandatoryrebate", "verplichterebate", "sumofmandatoryrebates">>],
  [id |-> "r_local", group |-> "rebate",
   aliases |-> <<"rebatelocal", "localrebate", "lokalerebate", "sumofrebatelocal">>],
  [id |-> "inc_royalty", group |-> "income",
   aliases |-> <<"royaltyincome", "royalty", "sumofroyaltyincome">>],
  [id |-> "inc_other", group |-> "income",
   aliases |-> <<"otherincome", "overigeinkomsten", "sumofotherincome">>],
  [id |-> "net", group |-> "core",
   aliases |-> <<"netsales", "net", "nettoomzet", "sumofnetsales">>]
>>

NumIds == {NUM_FIELD_DEFS[i].id : i \in 1..Len(NUM_FIELD_DEFS)}

NumDefOf == [id \in NumIds |-> NUM_FIELD_DEFS[CHOOSE i \in 1..Len(NUM_FIELD_DEFS) : NUM_FIELD_DEFS[i].id = id]]

\* the entry of NUM_FIELD_DEFS with a given id
NumDef(id) == NumDefOf[id]

GroupIdsOf == [g \in {"core", "discount", "rebate", "income"} |-> {id \in NumIds : NumDefOf[id].group = g}]

\* the ids of the fields of a group
GroupIds(g) == GroupIdsOf[g]

(***************************************************************************)
(* buildHeaderMap                                                          *)
(***************************************************************************)
\* a function written out as a table: a map object of the program is built once
Table(f) == f @@ <<>>

\* presentHeaders.reduce((m, h) => { m[CANON(h)] = h; return m; }, {}):
\* a later header with the same canon overwrites an earlier one
CanonToActual(presentHeaders) ==
  LET canon == Table([i \in 1..Len(presentHeaders) |-> CANON(presentHeaders[i])])
  IN Table([c \in {canon[i] : i \in 1..Len(presentHeaders)} |->
              presentHeaders[CHOOSE i \in 1..Len(presentHeaders) :
                               canon[i] = c /\ \A j \in (i + 1)..Len(presentHeaders) : canon[j] # c]])

\* canonToActual[a] as a string, "" for undefined (both are falsy)
Lookup(canonToActual, a) == IF a \in DOMAIN canonToActual THEN canonToActual[a] ELSE ""

\* fault variant: the alias latest in the list wins
FirstAliasHit_LastAlias(canonToActual, aliases) ==
  LET hits == {i \in 1..Len(aliases) : Lookup(canonToActual, aliases[i]) # ""}
  IN IF hits = {} THEN ""
     ELSE Lookup(canonToActual, aliases[CHOOSE i \in hits : \A j \in hits : i >= j])

\* the header of the first alias a with canonToActual[a] truthy; "" when there is none
FirstAliasHit(canonToActual, aliases) ==
  LET hits == {i \in 1..Len(aliases) : Lookup(canonToActual, aliases[i]) # ""}
  IN IF hits = {} THEN ""
     ELSE Lookup(canonToActual, aliases[CHOOSE i \in hits : \A j \in hits : i <= j])

\* strMap and numMap give the actual header of a field, "" when it is unresolved
buildHeaderMap(presentHeaders) ==
  LET canonToActual == CanonToActual(presentHeaders)
  IN [strMap |-> Table([key \in DOMAIN STR_FIELDS |-> FirstAliasHit(canonToActual, STR_FIELDS[key])]),
      numMap |-> Table([id \in NumIds |-> FirstAliasHit(canonToActual, NumDef(id).aliases)])]

(***************************************************************************)
(* validateAndNormalize                                                    *)
(*                                                                         *)
(* A raw row is a sequence of [k, v] pairs with distinct keys, in the      *)
(* object's key order.                                                     *)
(***************************************************************************)
\* Object.keys(r)
Keys(r) == [i \in 1..Len(r) |-> r[i].k]

\* r[key]: Undefined when the row has no such key
Get(r, key) ==
  IF \E i \in 1..Len(r) : r[i].k = key
  THEN r[CHOOSE i \in 1..Len(r) : r[i].k = key].v
  ELSE Undefined

\* n.toFixed(0) as a number of whole units: nearest, halves away from zero
toFixed0(n) ==
  LET q == (2 * Abs(n) + Scale) \div (2 * Scale) IN IF n < 0 THEN -q ELSE q

tolPct == 2

tolPctDenominator == 100

tolAbs == 50

\* fault variant: strict comparisons, so a difference on the bound is a mismatch
approxEq_Strict(a, b) ==
  LET diff == Abs(a - b)
      base == Max(1 * Scale, Max(Abs(a), Abs(b)))
  IN IF diff < tolAbs * Scale THEN TRUE
     ELSE diff * tolPctDenominator < tolPct * base

\* approxEq(a, b, tolPct = 0.02, tolAbs = 50)
approxEq(a, b) ==
  LET diff == Abs(a - b)
      base == Max(1 * Scale, Max(Abs(a), Abs(b)))
  IN IF diff <= tolAbs * Scale THEN TRUE
     ELSE diff * tolPctDenominator <= tolPct * base

Warning(kind, rowNo, fields, amount, expected) ==
  [kind |-> kind, row |-> rowNo, value |-> "", fields |-> fields, amount |-> amount, expected |-> expected]

\* getStr: String(actual ? r[actual] ?? "" : "").trim(), as a string cell
getStr(r, actual) ==
  LET v == IF actual # "" THEN Get(r, actual) ELSE Undefined
  IN StrCell(Trim(IF v.t = "undefined" THEN "" ELSE JSString(v)))

\* the ids of the discount and rebate fields, in NUM_FIELD_DEFS order
DiscountRebateSeq ==
  SelectSeq([i \in 1..Len(NUM_FIELD_DEFS) |-> NUM_FIELD_DEFS[i].id],
            LAMBDA id : NumDef(id).group \in {"discount", "rebate"})

RECURSIVE SumOver(_, _)
SumOver(num, ids) ==
  IF ids = {} THEN 0
  ELSE LET id == CHOOSE x \in ids : TRUE IN num[id] + SumOver(num, ids \ {id})

\* fault variant: rebates are left out of the sign correction
toPositive_DiscountsOnly(group, x) == IF group = "discount" /\ x < 0 THEN Abs(x) ELSE x

\* the sign correction of one parsed field: Math.abs for a negative discount or rebate
toPositive(group, x) == IF group \in {"discount", "rebate"} /\ x < 0 THEN Abs(x) ELSE x

\* fault variant: one correction counted per row, however many fields were flipped
signCorrections_OncePerRow(toPos) == IF Len(toPos) > 0 THEN 1 ELSE 0

\* corrected++ once per field pushed on toPos
signCorrections(toPos) == Len(toPos)

\* fault variant: discounts alone do not trigger the derivation
needsInvoiced_GrossOnly(actual, invoiced, gross, totalDiscounts) ==
  (actual = "" \/ invoiced = 0) /\ gross # 0

\* (!numMap.get("invoiced") || num.invoiced === 0) && (num.gross !== 0 || totalDiscounts !== 0)
needsInvoiced(actual, invoiced, gross, totalDiscounts) ==
  (actual = "" \/ invoiced = 0) /\ (gross # 0 \/ totalDiscounts # 0)

\* (!numMap.get("net") || num.net === 0) && (num.invoiced !== 0 || totalRebates !== 0 || totalIncome !== 0)
needsNet(actual, net, invoiced, totalRebates, totalIncome) ==
  (actual = "" \/ net = 0) /\ (invoiced # 0 \/ totalRebates # 0 \/ totalIncome # 0)

\* fault variant: the derived invoiced leaves the discounts out
calcInvoiced_GrossOnly(gross, totalDiscounts) == gross

\* const calc = num.gross - totalDiscounts
calcInvoiced(gross, totalDiscounts) == gross - totalDiscounts

\* const calc = num.invoiced - totalRebates + totalIncome
calcNet(invoiced, totalRebates, totalIncome) == invoiced - totalRebates + totalIncome

totalDiscounts(num) == SumOver(num, GroupIds("discount"))

totalRebates(num) == SumOver(num, GroupIds("rebate"))

totalIncome(num) == SumOver(num, GroupIds("income"))

\* parse the numeric fields whose header is resolved; the others stay 0
parseFields(r, numMap) ==
  Table([id \in NumIds |-> IF numMap[id] # "" THEN parseNumber(Get(r, numMap[id])) ELSE 0])

\* discounts and rebates to positive, with one warning listing the fields;
\* st holds the row's num, and warnings and corrected so far
signCorrect(rowNo, st) ==
  LET toPos == SelectSeq(DiscountRebateSeq, LAMBDA id : st.num[id] < 0)
  IN [num |-> Table([id \in NumIds |-> toPositive(NumDef(id).group, st.num[id])]),
      warnings |-> IF Len(toPos) > 0
                   THEN Append(st.warnings, Warning("sign", rowNo, toPos, 0, 0))
                   ELSE st.warnings,
      corrected |-> st.corrected + signCorrections(toPos)]

\* invoiced derived when missing or 0 while parts are present
deriveInvoiced(rowNo, actual, st) ==
  IF needsInvoiced(actual, st.num["invoiced"], st.num["gross"], totalDiscounts(st.num))
  THEN [num |-> IF st.num["invoiced"] = 0
                THEN [st.num EXCEPT !["invoiced"] = calcInvoiced(st.num["gross"], totalDiscounts(st.num))]
                ELSE st.num,
        warnings |-> Append(st.warnings,
                            Warning("invoicedDerived", rowNo, <<>>,
                                    toFixed0(calcInvoiced(st.num["gross"], totalDiscounts(st.num))), 0)),
        corrected |-> st.corrected + 1]
  ELSE st

\* net derived when missing
deriveNet(rowNo, actual, st) ==
  IF needsNet(actual, st.num["net"], st.num["invoiced"], totalRebates(st.num), totalIncome(st.num))
  THEN [num |-> IF st.num["net"] = 0
                THEN [st.num EXCEPT !["net"] =
                        calcNet(st.num["invoiced"], totalRebates(st.num), totalIncome(st.num))]
                ELSE st.num,
        warnings |-> Append(st.warnings,
                            Warning("netDerived", rowNo, <<>>,
                                    toFixed0(calcNet(st.num["invoiced"], totalRebates(st.num), totalIncome(st.num))), 0)),
        corrected |-> st.corrected + 1]
  ELSE st

\* balance check of invoiced against gross minus discounts
checkInvoiced(rowNo, st, expInvoiced) ==
  IF ~approxEq(st.num["invoiced"], expInvoiced)
  THEN [st EXCEPT !.warnings =
          Append(@, Warning("invoicedBalance", rowNo, <<>>, toFixed0(st.num["invoiced"]), toFixed0(expInvoiced)))]
  ELSE st

\* balance check of net against invoiced minus rebates plus income
checkNet(rowNo, st, expNet) ==
  IF ~approxEq(st.num["net"], expNet)
  THEN [st EXCEPT !.warnings =
          Append(@, Warning("netBalance", rowNo, <<>>, toFixed0(st.num["net"]), toFixed0(expNet)))]
  ELSE st

balanceChecks(rowNo, st) ==
  checkNet(rowNo,
           checkInvoiced(rowNo, st, st.num["gross"] - totalDiscounts(st.num)),
           st.num["invoiced"] - totalRebates(st.num) + totalIncome(st.num))

\* rows.push({ pg, sku, cust, period, gross: num.gross, ... })
pushRow(r, strMap, acc, p, st) ==
  [rows |-> Append(acc.rows, [pg |-> getStr(r, strMap.pg).s, sku |-> getStr(r, strMap.sku).s,
                              cust |-> getStr(r, strMap.cust).s, period |-> p.value, num |-> st.num]),
   warnings |-> st.warnings,
   corrected |-> st.corrected]

\* fault variant: net is derived before invoiced, from the invoiced as parsed
processNumbers_NetFirst(r, rowNo, numMap, acc, p) ==
  balanceChecks(rowNo,
    deriveInvoiced(rowNo, numMap["invoiced"],
      deriveNet(rowNo, numMap["net"],
        signCorrect(rowNo, [num |-> parseFields(r, numMap), warnings |-> p.warnings,
                            corrected |-> acc.corrected]))))

\* the numeric part of one iteration, after the period was normalized to p
processNumbers(r, rowNo, numMap, acc, p) ==
  balanceChecks(rowNo,
    deriveNet(rowNo, numMap["net"],
      deriveInvoiced(rowNo, numMap["invoiced"],
        signCorrect(rowNo, [num |-> parseFields(r, numMap), warnings |-> p.warnings,
                            corrected |-> acc.corrected]))))

\* fault variant: a row whose period is not recognized is warned about and dropped
ProcessRowWith_SkipUnparsedPeriod(r, rowNo, strMap, numMap, acc, p) ==
  IF Len(p.warnings) > Len(acc.warnings)
  THEN [acc EXCEPT !.warnings = p.warnings]
  ELSE pushRow(r, strMap, acc, p, processNumbers(r, rowNo, numMap, acc, p))

\* one iteration of the row loop: acc holds rows, warnings and corrected so far
ProcessRowWith(r, rowNo, strMap, numMap, acc, p) ==
  pushRow(r, strMap, acc, p, processNumbers(r, rowNo, numMap, acc, p))

ProcessRow(r, rowNo, strMap, numMap, acc) ==
  ProcessRowWith(r, rowNo, strMap, numMap, acc,
                 normalizePeriod(getStr(r, strMap.period), acc.warnings, rowNo))

\* fault variant: the rows are numbered from 1, the header row not counted
RECURSIVE RowLoop_HeaderNotCounted(_, _, _, _, _)
RowLoop_HeaderNotCounted(rawRows, i, strMap, numMap, acc) ==
  IF i > Len(rawRows) THEN acc
  ELSE RowLoop_HeaderNotCounted(rawRows, i + 1, strMap, numMap,
                                ProcessRow(rawRows[i], i, strMap, numMap, acc))

\* for (let i = 0; i < rawRows.length; i++): iterations i (1-based) to the last
RECURSIVE RowLoop(_, _, _, _, _)
RowLoop(rawRows, i, strMap, numMap, acc) ==
  IF i > Len(rawRows) THEN acc
  ELSE RowLoop(rawRows, i + 1, strMap, numMap,
               ProcessRow(rawRows[i], i + 1, strMap, numMap, acc))

Error(kind, names) == [kind |-> kind, names |-> names]

Abort(errors) == [rows |-> <<>>, warnings |-> <<>>, errors |-> errors, correctedCount |-> 0]

\* return { rows, warnings, errors, correctedCount: corrected }
Return(acc) ==
  [rows |-> acc.rows, warnings |-> acc.warnings, errors |-> <<>>, correctedCount |-> acc.corrected]

StrLabel == [pg |-> "Product Group Name", sku |-> "SKU Name",
             cust |-> "Customer Name (Sold-to)", period |-> "Fiscal year / period"]

\* fault variant: the gross header is checked after the rows were processed,
\* and the error is returned with what was computed
validateWith_GrossCheckedLast(rawRows, map) ==
  LET missingStr == SelectSeq(<<"pg", "sku", "cust", "period">>, LAMBDA key : map.strMap[key] = "")
      acc == RowLoop(rawRows, 1, map.strMap, map.numMap,
                     [rows |-> <<>>, warnings |-> <<>>, corrected |-> 0])
  IN IF Len(missingStr) > 0
       THEN Abort(<<Error("missingColumns", [i \in 1..Len(missingStr) |-> StrLabel[missingStr[i]]])>>)
     ELSE IF map.numMap["gross"] = ""
       THEN [rows |-> acc.rows, warnings |-> acc.warnings,
             errors |-> <<Error("missingGross", <<"Gross Sales">>)>>, correctedCount |-> acc.corrected]
     ELSE Return(acc)

\* fault variant: the period column is not required
validateWith_PeriodOptional(rawRows, map) ==
  LET missingStr == SelectSeq(<<"pg", "sku", "cust">>, LAMBDA key : map.strMap[key] = "")
  IN IF Len(missingStr) > 0
       THEN Abort(<<Error("missingColumns", [i \in 1..Len(missingStr) |-> StrLabel[missingStr[i]]])>>)
     ELSE IF map.numMap["gross"] = ""
       THEN Abort(<<Error("missingGross", <<"Gross Sales">>)>>)
     ELSE Return(RowLoop(rawRows, 1, map.strMap, map.numMap,
                         [rows |-> <<>>, warnings |-> <<>>, corrected |-> 0]))

\* the body of validateAndNormalize once the header map is built
validateWith(rawRows, map) ==
  LET missingStr == SelectSeq(<<"pg", "sku", "cust", "period">>, LAMBDA key : map.strMap[key] = "")
  IN IF Len(missingStr) > 0
       THEN Abort(<<Error("missingColumns", [i \in 1..Len(missingStr) |-> StrLabel[missingStr[i]]])>>)
     ELSE IF map.numMap["gross"] = ""
       THEN Abort(<<Error("missingGross", <<"Gross Sales">>)>>)
     ELSE Return(RowLoop(rawRows, 1, map.strMap, map.numMap,
                         [rows |-> <<>>, warnings |-> <<>>, corrected |-> 0]))

\* fault variant: the headers are the keys of all rows
RECURSIVE AllKeys(_)
AllKeys(rows) ==
  IF Len(rows) = 0 THEN <<>>
  ELSE LET before == AllKeys(SubSeq(rows, 1, Len(rows) - 1))
       IN before \o SelectSeq(Keys(rows[Len(rows)]), LAMBDA k : \A j \in 1..Len(before) : before[j] # k)

validateAndNormalize_HeadersOfAllRows(rawRows) ==
  IF Len(rawRows) = 0 THEN Abort(<<Error("noRows", <<>>)>>)
  ELSE validateWith(rawRows, buildHeaderMap(AllKeys(rawRows)))

validateAndNormalize(rawRows) ==
  IF Len(rawRows) = 0 THEN Abort(<<Error("noRows", <<>>)>>)
  ELSE validateWith(rawRows, buildHeaderMap(Keys(rawRows[1])))

(***************************************************************************)
(* Uploaded sheets                                                         *)
(*                                                                         *)
(* A sheet is a choice of columns from HeaderPool and a sequence of rows,  *)
(* each row one of the RowPool records restricted to the chosen columns.   *)
(***************************************************************************)
MaxRows == 2

HeaderPool == <<
  [name |-> "Product Group Name", col |-> "pg"],
  [name |-> "SKU Name", col |-> "sku"],
  [name |-> "Customer Name (Sold-to)", col |-> "cust"],
  [name |-> "Fiscal year / period", col |-> "period"],
  [name |-> "Sum of Gross Sales", col |-> "gross"],
  [name |-> "Channel Discounts", col |-> "d_channel"],
  [name |-> "Customer Discounts", col |-> "d_customer"],
  [name |-> "Invoiced Sales", col |-> "invoiced"],
  [name |-> "Direct rebates", col |-> "r_direct"],
  [name |-> "Royalty Income", col |-> "inc_royalty"],
  [name |-> "NET SALES", col |-> "net"]
>>

Pool == 1..Len(HeaderPool)

MandatoryCols == {i \in Pool : HeaderPool[i].col \in {"pg", "sku", "cust", "period", "gross"}}

OptionalCols == {i \in Pool : HeaderPool[i].col \in {"d_customer", "invoiced", "r_direct", "net"}}

\* sheets with every mandatory column, any of the optional ones left out
CompleteColumnSets == {Pool \ o : o \in SUBSET OptionalCols}

\* sheets that lack at least one mandatory column
IncompleteColumnSets == {Pool \ m : m \in (SUBSET MandatoryCols) \ {{}}}

S(x) == StrCell(x)

N(units) == NumCell(units * Scale)

RowPool == <<
  \* gross 1000, channel 100, customer 50, no invoiced and no net supplied
  [pg |-> S("Cardio"), sku |-> S("A10"), cust |-> S("Apotheek X"), period |-> S("2024-03"),
   gross |-> S("1000"), d_channel |-> S("100"), d_customer |-> S("50"), invoiced |-> S(""),
   r_direct |-> S("0"), inc_royalty |-> S(""), net |-> S("")],
  \* negative discounts and rebates in accounting, minus and decimal-comma notation; balanced
  [pg |-> S(" Onco "), sku |-> S("B20"), cust |-> S("Klant"), period |-> S("03-2024"),
   gross |-> N(1000), d_channel |-> S("(100)"), d_customer |-> S("-50"), invoiced |-> S("850"),
   r_direct |-> S("-20,5"), inc_royalty |-> N(10), net |-> S("839.5")],
  \* both balances off by far more than the tolerance; unrecognizable period
  [pg |-> S("Cardio"), sku |-> S("A10"), cust |-> S("Klant"), period |-> S("not-a-date"),
   gross |-> S("1.000,00"), d_channel |-> S("100"), d_customer |-> N(0), invoiced |-> S("700"),
   r_direct |-> S("0"), inc_royalty |-> S("0"), net |-> S("1,000.00")],
  \* invoiced off by exactly 50; net off by 51 on a base of 950
  [pg |-> S("Cardio"), sku |-> S("A11"), cust |-> S("Klant"), period |-> S("2024-Q2"),
   gross |-> S("1000"), d_channel |-> S("100"), d_customer |-> S(""), invoiced |-> S("950"),
   r_direct |-> S(""), inc_royalty |-> S(""), net |-> S("899")],
  \* invoiced off by exactly 2 percent of 10000; net off by 197 on a base of 9800
  [pg |-> S("Neuro"), sku |-> S("C30"), cust |-> S("Klant"), period |-> S("Q2 2024"),
   gross |-> S("10000"), d_channel |-> S("0"), d_customer |-> S("0"), invoiced |-> S("9800"),
   r_direct |-> S("0"), inc_royalty |-> S("0"), net |-> S("9603")],
  \* a blank row
  [pg |-> S(""), sku |-> Undefined, cust |-> S("  "), period |-> S(""),
   gross |-> S("0"), d_channel |-> S(""), d_customer |-> Undefined, invoiced |-> Undefined,
   r_direct |-> S(""), inc_royalty |-> Undefined, net |-> S("")],
  \* discounts eat all of gross: invoiced supplied as 0 and derived as 0
  [pg |-> S("Cardio"), sku |-> S("A10"), cust |-> S("Klant"), period |-> S("202403"),
   gross |-> S("100"), d_channel |-> S("60"), d_customer |-> S("40"), invoiced |-> S("0"),
   r_direct |-> S(""), inc_royalty |-> S(""), net |-> Undefined],
  \* discounts exceed gross; numeric cells; rebate in accounting notation
  [pg |-> S("Cardio"), sku |-> S("A12"), cust |-> N(4711), period |-> S(" 2024/3 "),
   gross |-> N(100), d_channel |-> N(300), d_customer |-> N(-5), invoiced |-> Undefined,
   r_direct |-> S("(30)"), inc_royalty |-> S(""), net |-> S("")],
  \* cells that are no numbers
  [pg |-> S("Cardio"), sku |-> S("A13"), cust |-> S("Klant"), period |-> S("2024Q5"),
   gross |-> S("abc"), d_channel |-> S("1.2.3"), d_customer |-> S("12,5"), invoiced |-> S("x"),
   r_direct |-> S("-"), inc_royalty |-> NaNCell, net |-> S("n/a")],
  \* a date-serial period cell; supplied invoiced far off; negative numeric discount
  [pg |-> S("Neuro"), sku |-> S("C31"), cust |-> S("Klant"), period |-> N(45000),
   gross |-> N(2000), d_channel |-> N(-100), d_customer |-> S("0"), invoiced |-> N(1500),
   r_direct |-> N(50), inc_royalty |-> S("10"), net |-> N(1460)],
  \* only a rebate is non-zero: net derived, invoiced not
  [pg |-> S("Neuro"), sku |-> S("C32"), cust |-> S("Klant"), period |-> S("Q5-2024"),
   gross |-> S("0"), d_channel |-> S("0"), d_customer |-> S("0"), invoiced |-> S("0"),
   r_direct |-> S("25"), inc_royalty |-> S("0"), net |-> S("0")],
  \* invoiced and net supplied without gross
  [pg |-> S("Neuro"), sku |-> S("C33"), cust |-> S("Klant"), period |-> S("q4 2025"),
   gross |-> S(""), d_channel |-> S(""), d_customer |-> S(""), invoiced |-> S("500"),
   r_direct |-> S(""), inc_royalty |-> S("25"), net |-> S("525")]
>>

\* the column indices of a set, in sheet order
ColumnSeq(cols) == SelectSeq([i \in Pool |-> i], LAMBDA i : i \in cols)

\* the raw row of RowPool[t] in a sheet with the columns cols
RawRow(cols, t) ==
  LET cs == ColumnSeq(cols)
  IN [j \in 1..Len(cs) |-> [k |-> HeaderPool[cs[j]].name, v |-> RowPool[t][HeaderPool[cs[j]].col]]]

\* the rows of a sheet: RowPool entries start, start + step, ... (cyclically)
RowSteps == 0..(Len(RowPool) - 1)

RowChoices ==
  {[i \in 1..n |-> ((start + (i - 1) * step - 1) % Len(RowPool)) + 1] :
     n \in 0..MaxRows, start \in 1..Len(RowPool), step \in RowSteps}

Sheet(cols, ts) == [i \in 1..Len(ts) |-> RawRow(cols, ts[i])]

\* sheets whose later rows have other keys than the first row: a column the
\* first row lacks, or columns of the first row missing
Without(cols) == Pool \ {i \in Pool : HeaderPool[i].col \in cols}

RaggedColumns ==
  {<<Without({"invoiced"}), Pool>>,
   <<Pool, Without({"period", "d_channel", "net"})>>,
   <<Without({"r_direct", "net"}), Without({"d_customer", "cust"})>>}

RaggedSheets ==
  {[i \in 1..Len(ts) |-> RawRow(IF i = 1 THEN cols[1] ELSE cols[2], ts[i])] :
     cols \in RaggedColumns, ts \in {c \in RowChoices : Len(c) >= 2}}

Sheets ==
  {Sheet(cols, ts) : cols \in CompleteColumnSets \cup IncompleteColumnSets, ts \in RowChoices}
    \cup RaggedSheets

(***************************************************************************)
(* The upload: a sheet is chosen, then validated and normalized            *)
(***************************************************************************)
VARIABLES rawRows, result, pc, arg, ret, wfRows, wfBase, tweaks, adj

vars == <<rawRows, result, pc, arg, ret, wfRows, wfBase, tweaks, adj>>

NoResult == [rows |-> <<>>, warnings |-> <<>>, errors |-> <<>>, correctedCount |-> 0]

\* no helper call and no waterfall page in this run
NoCall == [fn |-> "none"]

NoPage == [loaded |-> FALSE]

\* useState<Tweaks>({}) and the memoized adj, before the page has rendered
NoTweaks == <<>>

NoScenario == [computed |-> FALSE]

Init ==
  /\ rawRows \in Sheets
  /\ result = NoResult
  /\ pc = "uploaded"
  /\ arg = NoCall /\ ret = NoCall
  /\ wfRows = <<>> /\ wfBase = NoPage
  /\ tweaks = NoTweaks /\ adj = NoScenario

Validate ==
  /\ pc = "uploaded"
  /\ result' = validateAndNormalize(rawRows)
  /\ pc' = "done"
  /\ UNCHANGED <<rawRows, arg, ret, wfRows, wfBase, tweaks, adj>>

Next == Validate

Spec == Init /\ [][Next]_vars

(***************************************************************************)
(* Direct calls of the helpers: parseNumber on a cell, normalizePeriod on  *)
(* a cell, buildHeaderMap on a header list.  The cells are drawn from all  *)
(* short strings over a small alphabet and from composed number and period *)
(* notations.                                                              *)
(***************************************************************************)
MaxCellLen == 4

CellAlphabet == <<"1", "0", ",", ".", "-", "(", ")", " ", "x">>

\* every string over CellAlphabet of length n
RECURSIVE StringsOfLen(_)
StringsOfLen(n) ==
  IF n = 0 THEN {""}
  ELSE {s \o CellAlphabet[k] : s \in StringsOfLen(n - 1), k \in 1..Len(CellAlphabet)}

\* digits after the last separator of s
DecimalsOf(s) ==
  Len(s) - Max(LastIndexOf(s, ","), LastIndexOf(s, "."))

\* short strings whose value has at most two decimals
ShortStrings ==
  {s \in UNION {StringsOfLen(n) : n \in 0..MaxCellLen} :
     (LastIndexOf(s, ",") = 0 /\ LastIndexOf(s, ".") = 0) \/ DecimalsOf(s) <= 2}

\* a number in grouped notation: 1 to 3 leading digits, triplets set off by
\* the thousands separator, an optional fraction after the decimal mark
Leads == {"1", "12", "123"}

Triplets == {"234", "000", "567"}

Fractions == {"", "5", "56", "00"}

GroupedInts(sep) ==
  {lead \o sep \o g : lead \in Leads, g \in Triplets}
    \cup {lead \o sep \o g \o sep \o h : lead \in {"1", "12"}, g \in Triplets, h \in Triplets}

WithFraction(ip, mark, f) == IF f = "" THEN ip ELSE ip \o mark \o f

GroupedNumbers(sep, mark) == {WithFraction(ip, mark, f) : ip \in GroupedInts(sep), f \in Fractions}

\* the amount a grouped notation denotes, in 1/Scale units
GroupedValue(ip, sep, f) ==
  DigitsVal(Remove(ip, sep)) * Scale + (IF f = "" THEN 0 ELSE (DigitsVal(f) * Scale) \div Pow10(Len(f)))

\* notations that fit neither grouped pattern
UngroupedNumbers ==
  {"1,5", "1.5", "12,34.5", "12.34,5", "1.2.3,4", "1,2,3.4", "1,2.3,4", "1.2,3.4", "1,2,5", "1.2.5",
   "-1.234,56", "-1,234.56", "-1,5", "1234,56", "1234.56", "1234", "-7", "12-3", "--5", "5-",
   "EUR 1234,5", "12,5 %", "1 234,56", "abc", "n/a", "NaN", "-", ".", ",", "-.5", "5."}

Enclosed(s) == "(" \o s \o ")"

NumberStrings ==
  ShortStrings
    \cup GroupedNumbers(".", ",") \cup GroupedNumbers(",", ".")
    \cup UngroupedNumbers
    \cup {Enclosed(s) : s \in GroupedNumbers(".", ",") \cup GroupedNumbers(",", ".") \cup UngroupedNumbers}
    \cup {" " \o s \o " " : s \in UngroupedNumbers}
    \cup {"(123)", " (123) ", "(1.5)", "()", "((5))", "(5", "5)"}

NumberCells ==
  {StrCell(s) : s \in NumberStrings}
    \cup {NumCell(n) : n \in {0, 1, -1, 150, -12345, 4500000}}
    \cup {NaNCell, Undefined}

\* period cells: the notations of a year with a month or a quarter
Years == {"2000", "2020", "2024", "2099"}

Months == 1..12

Quarters == {"1", "2", "3", "4"}

Separators == {"-", "/"}

\* a month written without and with a leading zero
MonthTexts(m) == {NatToString(m), Pad2(m)}

YearMonth == {y \o sep \o mt : y \in Years, sep \in Separators, mt \in UNION {MonthTexts(m) : m \in Months}}

MonthYear == {mt \o sep \o y : y \in Years, sep \in Separators, mt \in UNION {MonthTexts(m) : m \in Months}}

YearMonthDigits == {y \o Pad2(m) : y \in Years, m \in Months}

QMarks == {"Q", "q"}

YearQuarter == {y \o gap \o q \o n : y \in Years, gap \in {"", "-", " ", "/", " - "}, q \in QMarks, n \in Quarters}

QuarterYear == {q \o n \o gap \o y : y \in Years, gap \in {"", " "}, q \in QMarks, n \in Quarters}

\* two notations in one cell, the second of a different year, month and quarter
TwoNotations ==
  {"2024-03 05-2025", "05-2025 2024-03", "2024-03 202511", "2024-03 2025-Q4", "2025-Q4 2024-03",
   "2024-03 Q4 2025", "Q4 2025 2024-03", "03-2024 202511", "03-2024 2025-Q4", "2025-Q4 03-2024",
   "03-2024 Q4 2025", "Q4 2025 03-2024", "2025-Q4 202403", "Q4 2025 202403",
   "2024-Q2 Q4 2025", "Q4 2025 2024-Q2"}

OtherPeriods ==
  {"not-a-date", "", "  ", "abc", "1999-03", "03-1999", "45000", "2024", "Q5-2024", "Q2-2024", "2024Q5",
   "March 2024", "2024.03", "2024-13", " not a date ", "12/31/2024", "2024-03-15", "..."}

PeriodCells ==
  {StrCell(s) : s \in YearMonth \cup MonthYear \cup YearMonthDigits \cup YearQuarter \cup QuarterYear
                        \cup TwoNotations \cup OtherPeriods}
    \cup {StrCell(" " \o s \o " ") : s \in YearMonthDigits \cup QuarterYear}
    \cup {N(45000), N(20000), N(20001), N(202403), N(2024), N(45292), N(7), NaNCell, Undefined}

\* the row numbers passed to normalizePeriod
RowNumbers == {2, 3}

\* header lists: up to MaxHeaders different headers of HeaderNames, in any order
MaxHeaders == 3

HeaderNames ==
  <<"Gross", "Sum of Gross Sales", "GROSS  SALES", "Bruto-omzet", "Period", "Maand", "YYYY-MM", "mm-yyyy",
    "Fiscal year / period", "Product", "Customer", "Net Sales (EUR)">>

RECURSIVE HeaderListsOfLen(_)
HeaderListsOfLen(n) ==
  IF n = 0 THEN {<<>>}
  ELSE {Append(hs, HeaderNames[k]) : hs \in HeaderListsOfLen(n - 1), k \in 1..Len(HeaderNames)}

HeaderLists ==
  {hs \in UNION {HeaderListsOfLen(n) : n \in 0..MaxHeaders} :
     \A i, j \in 1..Len(hs) : i # j => hs[i] # hs[j]}

\* one call of a helper with its arguments
Calls ==
  {[fn |-> "parseNumber", v |-> v] : v \in NumberCells}
    \cup {[fn |-> "normalizePeriod", v |-> v, rowIdx |-> rowIdx] : v \in PeriodCells, rowIdx \in RowNumbers}
    \cup {[fn |-> "buildHeaderMap", presentHeaders |-> hs] : hs \in HeaderLists}
    \cup {[fn |-> "validateAndNormalize", rawRows |-> Sheet(Pool, <<k>>)] : k \in 1..Len(RowPool)}

CallInit ==
  /\ arg \in Calls
  /\ ret = NoCall
  /\ pc = "call"
  /\ rawRows = <<>> /\ result = NoResult
  /\ wfRows = <<>> /\ wfBase = NoPage
  /\ tweaks = NoTweaks /\ adj = NoScenario

CallParseNumber ==
  /\ pc = "call" /\ arg.fn = "parseNumber"
  /\ ret' = parseNumber(arg.v)
  /\ pc' = "returned"
  /\ UNCHANGED <<arg, rawRows, result, wfRows, wfBase, tweaks, adj>>

CallNormalizePeriod ==
  /\ pc = "call" /\ arg.fn = "normalizePeriod"
  /\ ret' = normalizePeriod(arg.v, <<>>, arg.rowIdx)
  /\ pc' = "returned"
  /\ UNCHANGED <<arg, rawRows, result, wfRows, wfBase, tweaks, adj>>

CallBuildHeaderMap ==
  /\ pc = "call" /\ arg.fn = "buildHeaderMap"
  /\ ret' = buildHeaderMap(arg.presentHeaders)
  /\ pc' = "returned"
  /\ UNCHANGED <<arg, rawRows, result, wfRows, wfBase, tweaks, adj>>

CallValidateAndNormalize ==
  /\ pc = "call" /\ arg.fn = "validateAndNormalize"
  /\ ret' = validateAndNormalize(arg.rawRows)
  /\ pc' = "returned"
  /\ UNCHANGED <<arg, rawRows, result, wfRows, wfBase, tweaks, adj>>

CallNext == CallParseNumber \/ CallNormalizePeriod \/ CallBuildHeaderMap \/ CallValidateAndNormalize

CallSpec == CallInit /\ [][CallNext]_vars

(***************************************************************************)
(* The waterfall page: the rows loaded from storage are folded into totals, *)
(* bucket totals, the step sequence and the sorted bucket list (`base`).   *)
(* A row is a record of its fields; a field the stored row lacks is absent *)
(* from the record.  Amounts are in 1/Scale units.                         *)
(***************************************************************************)
\* row.f || 0
OrZero(row, f) == IF f \in DOMAIN row THEN row[f] ELSE 0

sumDiscounts(r) ==
  OrZero(r, "d_channel") + OrZero(r, "d_customer") + OrZero(r, "d_product") + OrZero(r, "d_volume")
    + OrZero(r, "d_other_sales") + OrZero(r, "d_mandatory") + OrZero(r, "d_local")

sumRebates(r) ==
  OrZero(r, "r_direct") + OrZero(r, "r_prompt") + OrZero(r, "r_indirect") + OrZero(r, "r_mandatory")
    + OrZero(r, "r_local")

\* rows.forEach(row => { total += amount of row }), for the amounts in row order
RECURSIVE Total(_)
Total(amounts) ==
  IF Len(amounts) = 0 THEN 0 ELSE Total(SubSeq(amounts, 1, Len(amounts) - 1)) + amounts[Len(amounts)]

\* the discount and rebate fields the page accumulates, under the names of d and r
DiscountBuckets ==
  [channel |-> "d_channel", customer |-> "d_customer", product |-> "d_product", volume |-> "d_volume",
   other_sales |-> "d_other_sales", mandatory |-> "d_mandatory", local |-> "d_local"]

RebateBuckets ==
  [direct |-> "r_direct", prompt |-> "r_prompt", indirect |-> "r_indirect", mandatory |-> "r_mandatory",
   local |-> "r_local"]

\* d.channel += row.d_channel || 0; ... and r.direct += row.r_direct || 0; ...
BucketSums(rows, fields) ==
  Table([b \in DOMAIN fields |-> Total([i \in 1..Len(rows) |-> OrZero(rows[i], fields[b])])])

Step(label, value, kind) == [label |-> label, value |-> value, kind |-> kind]

\* the step sequence of gross, discount totals d, rebate totals r
Steps(gross, d, r) ==
  <<Step("Gross", gross, "pos-start"),
    Step("Channel", -d.channel, "neg"),
    Step("Customer", -d.customer, "neg"),
    Step("Product", -d.product, "neg"),
    Step("Volume", -d.volume, "neg"),
    Step("Other/Value", -d.other_sales, "neg"),
    Step("Mandatory", -d.mandatory, "neg"),
    Step("Local", -d.local, "neg"),
    Step("Invoiced", 0, "subtotal"),
    Step("Reb. Direct", -r.direct, "neg"),
    Step("Reb. Prompt", -r.prompt, "neg"),
    Step("Reb. Indirect", -r.indirect, "neg"),
    Step("Reb. Mandatory", -r.mandatory, "neg"),
    Step("Reb. Local", -r.local, "neg"),
    Step("Net", 0, "subtotal")>>

\* gross ? (value / gross) * 100 : 0, kept as an exact fraction num / den
Share(value, gross) ==
  IF gross # 0 THEN [num |-> value * 100, den |-> gross] ELSE [num |-> 0, den |-> 1]

\* [...].sort((a, b) => b.value - a.value): descending by value, equal values keep their order
RECURSIVE SortByValueDesc(_)
SortByValueDesc(bs) ==
  IF Len(bs) <= 1 THEN bs
  ELSE LET sorted == SortByValueDesc(SubSeq(bs, 1, Len(bs) - 1))
           b == bs[Len(bs)]
           before == Cardinality({i \in 1..Len(sorted) : sorted[i].value >= b.value})
       IN SubSeq(sorted, 1, before) \o <<b>> \o SubSeq(sorted, before + 1, Len(sorted))

Buckets(gross, d) ==
  LET list == <<[key |-> "Customer", value |-> d.customer],
                [key |-> "Volume", value |-> d.volume],
                [key |-> "Channel", value |-> d.channel],
                [key |-> "Product", value |-> d.product],
                [key |-> "Other/Value", value |-> d.other_sales],
                [key |-> "Mandatory", value |-> d.mandatory],
                [key |-> "Local", value |-> d.local]>>
  IN SortByValueDesc([i \in 1..Len(list) |->
                        [key |-> list[i].key, value |-> list[i].value, share |-> Share(list[i].value, gross)]])

\* the exact quotient num / den in lowest terms, with den > 0
RECURSIVE GCD(_, _)
GCD(a, b) == IF b = 0 THEN a ELSE GCD(b, a % b)

\* a zero den stands for the Infinity or NaN of a division by zero
Ratio(num, den) ==
  LET g == Max(1, GCD(Abs(num), Abs(den)))
      sign == IF den < 0 THEN -1 ELSE 1
  IN [num |-> sign * (num \div g), den |-> sign * (den \div g)]

RatioMinus(a, b) == Ratio(a.num * b.den - b.num * a.den, a.den * b.den)

RatioPlus(a, n) == Ratio(a.num + n * a.den, a.den)

RatioGeq(a, b) == a.num * b.den >= b.num * a.den

\* fault variant: the denominator is not tested
Percent_Unguarded(num, den) == Ratio(num * 100, den)

\* den ? (num / den) * 100 : 0
Percent(num, den) == IF den # 0 THEN Ratio(num * 100, den) ELSE Ratio(0, 1)

\* row.cust || "(onbekend)", row.sku || "(onbekend)"
KeyOr(row, f) == IF f \in DOMAIN row /\ row[f] # "" THEN row[f] ELSE "(onbekend)"

\* the keys of the Map, in the order of their first row
RECURSIVE GroupKeys(_, _)
GroupKeys(rows, f) ==
  IF Len(rows) = 0 THEN <<>>
  ELSE LET before == GroupKeys(SubSeq(rows, 1, Len(rows) - 1), f)
           key == KeyOr(rows[Len(rows)], f)
       IN IF \E i \in 1..Len(before) : before[i] = key THEN before ELSE Append(before, key)

\* cur.disc += sumDiscounts(row); cur.gross += row.gross || 0, per key
GroupTotals(rows, f) ==
  LET keys == GroupKeys(rows, f)
  IN [g \in 1..Len(keys) |->
        [key |-> keys[g],
         disc |-> Total([i \in 1..Len(rows) |-> IF KeyOr(rows[i], f) = keys[g] THEN sumDiscounts(rows[i]) ELSE 0]),
         gross |-> Total([i \in 1..Len(rows) |-> IF KeyOr(rows[i], f) = keys[g] THEN OrZero(rows[i], "gross") ELSE 0])]]

\* .sort((a, b) => b.disc - a.disc): descending by disc, equal discs keep their order
RECURSIVE SortByDiscDesc(_)
SortByDiscDesc(es) ==
  IF Len(es) <= 1 THEN es
  ELSE LET sorted == SortByDiscDesc(SubSeq(es, 1, Len(es) - 1))
           e == es[Len(es)]
           before == Cardinality({i \in 1..Len(sorted) : sorted[i].disc >= e.disc})
       IN SubSeq(sorted, 1, before) \o <<e>> \o SubSeq(sorted, before + 1, Len(sorted))

\* .slice(0, 3)
TopN == 3

Slice(es) == SubSeq(es, 1, IF Len(es) < TopN THEN Len(es) ELSE TopN)

\* the flag threshold: pct >= overallDiscPct + 5
FlagMargin == 5

topCustomers(rows, overallDiscPct) ==
  LET groups == GroupTotals(rows, "cust")
  IN Slice(SortByDiscDesc([g \in 1..Len(groups) |->
       [cust |-> groups[g].key, disc |-> groups[g].disc, gross |-> groups[g].gross,
        pct |-> Percent(groups[g].disc, groups[g].gross),
        delta |-> IF groups[g].gross # 0
                  THEN RatioMinus(Percent(groups[g].disc, groups[g].gross), overallDiscPct)
                  ELSE Ratio(0, 1)]]))

topSkus(rows, overallDiscPct) ==
  LET groups == GroupTotals(rows, "sku")
  IN Slice(SortByDiscDesc([g \in 1..Len(groups) |->
       [sku |-> groups[g].key, disc |-> groups[g].disc, gross |-> groups[g].gross,
        pct |-> Percent(groups[g].disc, groups[g].gross),
        flag |-> IF groups[g].gross # 0
                 THEN RatioGeq(Percent(groups[g].disc, groups[g].gross), RatioPlus(overallDiscPct, FlagMargin))
                 ELSE FALSE]]))

\* fault variant: a negative difference is kept
Invoiced_Unclamped(gross, totalDisc) == gross - totalDisc

\* Math.max(0, gross - totalDisc), of base and of adj
Invoiced(gross, totalDisc) == Max(0, gross - totalDisc)

\* Math.max(0, invoiced - totalReb), of base and of adj
Net(invoiced, totalReb) == Max(0, invoiced - totalReb)

\* the memoized `base` of the page
Base(rows) ==
  LET gross == Total([i \in 1..Len(rows) |-> OrZero(rows[i], "gross")])
      totalDisc == Total([i \in 1..Len(rows) |-> sumDiscounts(rows[i])])
      totalReb == Total([i \in 1..Len(rows) |-> sumRebates(rows[i])])
      d == BucketSums(rows, DiscountBuckets)
      r == BucketSums(rows, RebateBuckets)
      invoiced == Invoiced(gross, totalDisc)
      net == Net(invoiced, totalReb)
      overallDiscPct == Percent(totalDisc, gross)
  IN [loaded |-> TRUE, gross |-> gross, invoiced |-> invoiced, net |-> net,
      totalDisc |-> totalDisc, totalReb |-> totalReb,
      steps |-> Steps(gross, d, r), buckets |-> Buckets(gross, d), d |-> d, r |-> r,
      topCustomers |-> topCustomers(rows, overallDiscPct), topSkus |-> topSkus(rows, overallDiscPct)]

\* the page of an empty dataset: the "Geen data gevonden" notice, no base
EmptyPage == [loaded |-> TRUE, empty |-> TRUE]

(***************************************************************************)
(* The scenario: a tweak per bucket, a fraction held as a whole number of  *)
(* 1/TweakScale (the slider's step is 0.01).  The adjusted amounts of adj  *)
(* are in 1/(Scale * TweakScale) units, so that amount * (1 - fraction) is *)
(* exact.                                                                  *)
(***************************************************************************)
TweakScale == 100

\* 0.2, the upper end of a tweak
MaxTweak == 20

Min(a, b) == IF a <= b THEN a ELSE b

\* fault variant: no upper end
clamp_LowerOnly(v, a, b) == Max(a, v)

clamp(v, a, b) == Max(a, Min(b, v))

BucketKeys == {"Customer", "Volume", "Channel", "Product", "Other/Value", "Mandatory", "Local"}

\* the tweak that scales each total of base.d
BucketOf ==
  [channel |-> "Channel", customer |-> "Customer", product |-> "Product", volume |-> "Volume",
   other_sales |-> "Other/Value", mandatory |-> "Mandatory", local |-> "Local"]

\* tweaks.X ?? 0
TweakOr(tw, key) == IF key \in DOMAIN tw THEN tw[key] ELSE 0

\* an amount of base in the units of adj
Fine(amount) == amount * TweakScale

FineSteps(steps) ==
  [i \in 1..Len(steps) |-> Step(steps[i].label, Fine(steps[i].value), steps[i].kind)]

\* the memoized `adj` of the page, with its invoicedAdj and netAdj
Adj(tw, base) ==
  LET t == Table([k \in BucketKeys |-> clamp(TweakOr(tw, k), 0, MaxTweak)])
      dAdj == Table([f \in DOMAIN base.d |-> base.d[f] * (TweakScale - t[BucketOf[f]])])
      totalDiscAdj == dAdj.channel + dAdj.customer + dAdj.product + dAdj.volume + dAdj.other_sales
                        + dAdj.mandatory + dAdj.local
      invoicedAdj == Invoiced(Fine(base.gross), totalDiscAdj)
      netAdj == Net(invoicedAdj, Fine(base.totalReb))
  IN [computed |-> TRUE, netUplift |-> netAdj - Fine(base.net),
      stepsAdj |-> Steps(Fine(base.gross), dAdj, Table([f \in DOMAIN base.r |-> Fine(base.r[f])])),
      t |-> t, dAdj |-> dAdj, invoicedAdj |-> invoicedAdj, netAdj |-> netAdj]

\* fault variant: the scenario counts as active when it has an uplift
TweaksActive_ByUplift(a) == a.netUplift > 0

\* Object.values(adj.t).some((v) => v > 0)
TweaksActive(a) == \E k \in BucketKeys : a.t[k] > 0

\* the steps handed to the chart, in the units of adj
ChartSteps(base, a) == IF TweaksActive(a) THEN a.stepsAdj ELSE FineSteps(base.steps)

\* Margebrug (scenario) or (baseline)
ChartTitle(a) == IF TweaksActive(a) THEN "(scenario)" ELSE "(baseline)"

\* the stored rows: canonical rows, and rows lacking some fields
MaxStoredRows == 4

WRow(cust, sku, gross, dch, dcu, dva, dot, rdi, rpr) ==
  [cust |-> cust, sku |-> sku, gross |-> gross * Scale,
   d_channel |-> dch * Scale, d_customer |-> dcu * Scale, d_product |-> 0, d_volume |-> 0,
   d_value |-> dva * Scale, d_other_sales |-> dot * Scale, d_mandatory |-> 0, d_local |-> 0,
   r_direct |-> rdi * Scale, r_prompt |-> rpr * Scale, r_indirect |-> 0, r_mandatory |-> 0, r_local |-> 0]

StoredRowPool ==
  <<WRow("Apotheek X", "A10", 1000, 100, 50, 0, 0, 20, 5),
    WRow("Apotheek X", "B20", 2000, 300, 0, 150, 25, 0, 40),
    WRow("Klant", "A10", 500, 0, 0, 80, 0, 60, 0),
    WRow("", "", 100, 300, 0, 0, 0, 0, 0),
    WRow("Klant", "C30", 0, 0, 0, 0, 0, 0, 0),
    WRow("Retour", "A10", -100, 0, 10, 0, 0, 0, 0),
    WRow("Klant", "D40", 200, 50, 0, 0, 0, 180, 0),
    [cust |-> "Groothandel", sku |-> "C30", gross |-> 750 * Scale, d_volume |-> 75 * Scale,
     d_mandatory |-> 10 * Scale, d_local |-> 5 * Scale, d_product |-> 30 * Scale,
     r_indirect |-> 15 * Scale, r_mandatory |-> 5 * Scale, r_local |-> 1 * Scale]>>

RECURSIVE StoredRowsOfLen(_)
StoredRowsOfLen(n) ==
  IF n = 0 THEN {<<>>}
  ELSE {Append(rs, StoredRowPool[k]) : rs \in StoredRowsOfLen(n - 1), k \in 1..Len(StoredRowPool)}

StoredRows == UNION {StoredRowsOfLen(n) : n \in 0..MaxStoredRows}

\* const rows = loadWaterfallRows()
WaterfallInit ==
  /\ wfRows \in StoredRows
  /\ wfBase = NoPage
  /\ tweaks = NoTweaks /\ adj = NoScenario
  /\ pc = "mount"
  /\ rawRows = <<>> /\ result = NoResult
  /\ arg = NoCall /\ ret = NoCall

\* the page renders: the notice for an empty dataset, else base and adj are computed
Render ==
  /\ pc = "mount"
  /\ wfBase' = IF Len(wfRows) = 0 THEN EmptyPage ELSE Base(wfRows)
  /\ tweaks' = NoTweaks
  /\ adj' = IF Len(wfRows) = 0 THEN NoScenario ELSE Adj(NoTweaks, Base(wfRows))
  /\ pc' = "rendered"
  /\ UNCHANGED <<wfRows, rawRows, result, arg, ret>>

WaterfallNext == Render

WaterfallSpec == WaterfallInit /\ [][WaterfallNext]_vars

(***************************************************************************)
(* The scenario panel: after the page has rendered a dataset, a slider is  *)
(* moved or the tweaks are reset, and the page renders again.              *)
(***************************************************************************)
\* at most this many buckets are given a tweak in one run
MaxTweaked == 2

\* the values a slider hands to its handler, in 1/TweakScale
SliderValues == {-5, 0, 7, 20, 25}

ScenarioRows ==
  StoredRowsOfLen(0) \cup StoredRowsOfLen(1)
    \cup {<<StoredRowPool[k], StoredRowPool[k + 1]>> : k \in 1..(Len(StoredRowPool) - 1)}

ScenarioInit ==
  /\ wfRows \in ScenarioRows
  /\ wfBase = NoPage
  /\ tweaks = NoTweaks /\ adj = NoScenario
  /\ pc = "mount"
  /\ rawRows = <<>> /\ result = NoResult
  /\ arg = NoCall /\ ret = NoCall

\* fault variant: the tweak is applied to the totals of base in place
MoveSlider_InPlace(b, v) ==
  /\ pc = "rendered" /\ Len(wfRows) > 0
  /\ b \in DOMAIN tweaks \/ Cardinality(DOMAIN tweaks) < MaxTweaked
  /\ tweaks' = Table([k \in DOMAIN tweaks \cup {b} |-> IF k = b THEN clamp(v, 0, MaxTweak) ELSE tweaks[k]])
  /\ wfBase' = [wfBase EXCEPT !.d = Table([f \in DOMAIN wfBase.d |->
                   IF BucketOf[f] = b
                   THEN (wfBase.d[f] * (TweakScale - clamp(v, 0, MaxTweak))) \div TweakScale
                   ELSE wfBase.d[f]])]
  /\ adj' = Adj(tweaks', wfBase')
  /\ UNCHANGED <<wfRows, pc, rawRows, result, arg, ret>>

\* onChange of the slider of bucket b: setTweaks((s) => ({ ...s, [b.key]: clamp(Number(value), 0, 0.2) }))
MoveSlider(b, v) ==
  /\ pc = "rendered" /\ Len(wfRows) > 0
  /\ b \in DOMAIN tweaks \/ Cardinality(DOMAIN tweaks) < MaxTweaked
  /\ tweaks' = Table([k \in DOMAIN tweaks \cup {b} |-> IF k = b THEN clamp(v, 0, MaxTweak) ELSE tweaks[k]])
  /\ adj' = Adj(tweaks', wfBase)
  /\ UNCHANGED <<wfRows, wfBase, pc, rawRows, result, arg, ret>>

\* const resetTweaks = () => setTweaks({})
resetTweaks ==
  /\ pc = "rendered" /\ Len(wfRows) > 0
  /\ tweaks' = NoTweaks
  /\ adj' = Adj(tweaks', wfBase)
  /\ UNCHANGED <<wfRows, wfBase, pc, rawRows, result, arg, ret>>

ScenarioNext ==
  \/ Render
  \/ \E b \in BucketKeys, v \in SliderValues : MoveSlider(b, v)
  \/ resetTweaks

ScenarioSpec == ScenarioInit /\ [][ScenarioNext]_vars

(***************************************************************************)
(* The scenario computation by itself: adj is computed once for a dataset  *)
(* and a fraction vector, which may hold fractions outside of [0, 0.2] and *)
(* may lack buckets.                                                       *)
(***************************************************************************)
FractionVectors ==
  UNION {[ks -> SliderValues] : ks \in {s \in SUBSET BucketKeys : Cardinality(s) <= MaxTweaked}}

AdjCalls ==
  {[fn |-> "adj", tweaks |-> tw, rows |-> rs] : tw \in FractionVectors, rs \in ScenarioRows \ {<<>>}}

AdjInit ==
  /\ arg \in AdjCalls
  /\ ret = NoCall
  /\ pc = "call"
  /\ rawRows = <<>> /\ result = NoResult
  /\ wfRows = <<>> /\ wfBase = NoPage
  /\ tweaks = NoTweaks /\ adj = NoScenario

CallAdj ==
  /\ pc = "call" /\ arg.fn = "adj"
  /\ ret' = Adj(arg.tweaks, Base(arg.rows))
  /\ pc' = "returned"
  /\ UNCHANGED <<arg, rawRows, result, wfRows, wfBase, tweaks, adj>>

AdjNext == CallAdj

AdjSpec == AdjInit /\ [][AdjNext]_vars

(***************************************************************************)
(* Observations of an upload, used to state the properties below.  The     *)
(* header map of the sheet is passed as `map`, built once per property.    *)
(***************************************************************************)
Done == pc = "done"

HasRows == Len(rawRows) > 0

\* the header map of the sheet (the keys of its first row); no sheet, no headers
HeaderMap == buildHeaderMap(IF HasRows THEN Keys(rawRows[1]) ELSE <<>>)

MandatoryStr == {"pg", "sku", "cust", "period"}

UnresolvedStr(map) == {key \in MandatoryStr : map.strMap[key] = ""}

GrossUnresolved(map) == map.numMap["gross"] = ""

\* the upload ran on a sheet whose first row resolves the five mandatory columns
Processed(map) == Done /\ HasRows /\ UnresolvedStr(map) = {} /\ ~GrossUnresolved(map)

\* the trimmed text of the cell of input row i under the header of a string field
CellText(map, i, key) ==
  LET v == Get(rawRows[i], map.strMap[key])
  IN Trim(IF v.t = "undefined" THEN "" ELSE JSString(v))

\* the number parsed from the cell of input row i for a numeric field, 0 when unresolved
Parsed(map, i, id) ==
  IF map.numMap[id] = "" THEN 0 ELSE parseNumber(Get(rawRows[i], map.numMap[id]))

\* the warnings of a kind that cite the spreadsheet row of input row i
WarningsOf(i, kind) ==
  {j \in 1..Len(result.warnings) : result.warnings[j].row = i + 1 /\ result.warnings[j].kind = kind}

RECURSIVE SumFn(_, _)
SumFn(f, n) == IF n = 0 THEN 0 ELSE f[n] + SumFn(f, n - 1)

Discounts == {"d_channel", "d_customer", "d_product", "d_volume", "d_value", "d_other_sales", "d_mandatory", "d_local"}

Rebates == {"r_direct", "r_prompt", "r_indirect", "r_mandatory", "r_local"}

Incomes == {"inc_royalty", "inc_other"}

\* sums over the components of output row i
RowDiscounts(i) == SumOver(result.rows[i].num, Discounts)

RowRebates(i) == SumOver(result.rows[i].num, Rebates)

RowIncome(i) == SumOver(result.rows[i].num, Incomes)

\* the discount and rebate fields of input row i whose parsed value is negative
NegativeFields(map, i) == {id \in Discounts \cup Rebates : Parsed(map, i, id) < 0}

\* invoiced absent or parsed to zero while gross or the discounts are non-zero
InvoicedMissing(map, i) ==
  /\ map.numMap["invoiced"] = "" \/ Parsed(map, i, "invoiced") = 0
  /\ result.rows[i].num["gross"] # 0 \/ RowDiscounts(i) # 0

\* net absent or parsed to zero while invoiced, rebates or income are non-zero
NetMissing(map, i) ==
  /\ map.numMap["net"] = "" \/ Parsed(map, i, "net") = 0
  /\ result.rows[i].num["invoiced"] # 0 \/ RowRebates(i) # 0 \/ RowIncome(i) # 0

\* |actual - expected| <= max(50, 0.02 * max(|actual|, |expected|)), in 1/Scale units
WithinTolerance(actual, expected) ==
  100 * Abs(actual - expected) <= Max(100 * 50 * Scale, 2 * Max(Abs(actual), Abs(expected)))

\* YYYY-MM or YYYY-Qn, as a matter of syntax
Canonical(s) ==
  /\ Len(s) = 7
  /\ \A k \in 1..4 : IsDigit(Ch(s, k))
  /\ Ch(s, 5) = "-"
  /\ \/ IsDigit(Ch(s, 6)) /\ IsDigit(Ch(s, 7))
     \/ Ch(s, 6) = "Q" /\ Ch(s, 7) \in {"1", "2", "3", "4"}

(***************************************************************************)
(* Properties of validateAndNormalize                                      *)
(***************************************************************************)

\* C1: for a non-empty input whose first row resolves the five mandatory
\* columns, there is exactly one output row per input row, in input order:
\* output row i carries the identity fields and the gross of input row i,
\* whatever warnings were raised.
C1_OneRowPerInputRow ==
  LET map == HeaderMap
  IN Processed(map) =>
       /\ Len(result.rows) = Len(rawRows)
       /\ \A i \in 1..Len(rawRows) :
            /\ i <= Len(result.rows)
            /\ result.rows[i].pg = CellText(map, i, "pg")
            /\ result.rows[i].sku = CellText(map, i, "sku")
            /\ result.rows[i].cust = CellText(map, i, "cust")
            /\ result.rows[i].num["gross"] = Parsed(map, i, "gross")

\* two different rows were processed, the first with an unrecognizable period
\* and a balance mismatch, the second with a sign correction
C1_Witness ==
  /\ Processed(HeaderMap)
  /\ Len(result.rows) = 2
  /\ result.rows[1].sku # result.rows[2].sku
  /\ WarningsOf(1, "period") # {}
  /\ WarningsOf(1, "invoicedBalance") # {}
  /\ WarningsOf(2, "sign") # {}

\* C2: a non-empty errors list comes with no rows, correctedCount 0 and no
\* warnings (no row was processed); a sheet without any alias of Gross Sales
\* ends that way.
C2_ErrorsMeanNothingProcessed ==
  Done =>
    /\ Len(result.errors) > 0 =>
         result.rows = <<>> /\ result.correctedCount = 0 /\ result.warnings = <<>>
    /\ (HasRows /\ GrossUnresolved(HeaderMap)) => Len(result.errors) > 0

\* only the gross column is missing, and the rows hold values that would
\* have been corrected
C2_Witness ==
  LET map == HeaderMap
  IN /\ Done
     /\ Len(rawRows) = 2
     /\ GrossUnresolved(map)
     /\ UnresolvedStr(map) = {}
     /\ NegativeFields(map, 1) # {}
     /\ Len(result.errors) = 1

\* C3 as stated: errors are non-empty only when a mandatory string header or
\* the gross header cannot be resolved.
C3_OnlyHeaderErrors ==
  LET map == HeaderMap
  IN (Done /\ Len(result.errors) > 0) =>
       (HasRows /\ (UnresolvedStr(map) # {} \/ GrossUnresolved(map)))

\* C3, amended: errors are non-empty exactly when the input has no rows, or a
\* mandatory string header is unresolved, or the gross header is unresolved;
\* the one error reported is that of the first of these conditions that applies.
C3_ErrorConditions ==
  LET map == HeaderMap
  IN Done =>
       /\ Len(result.errors) > 0 <=> (~HasRows \/ UnresolvedStr(map) # {} \/ GrossUnresolved(map))
       /\ Len(result.errors) <= 1
       /\ Len(result.errors) > 0 =>
            result.errors[1].kind =
              (IF ~HasRows THEN "noRows"
               ELSE IF UnresolvedStr(map) # {} THEN "missingColumns" ELSE "missingGross")

\* an input without rows was rejected
C3_Witness == Done /\ ~HasRows /\ Len(result.errors) = 1 /\ result.errors[1].kind = "noRows"

Label(field) ==
  CASE field = "pg" -> "Product Group Name"
    [] field = "sku" -> "SKU Name"
    [] field = "cust" -> "Customer Name (Sold-to)"
    [] field = "period" -> "Fiscal year / period"
    [] field = "gross" -> "Gross Sales"

\* the mandatory fields named by the errors
NamedFields ==
  {f \in MandatoryStr \cup {"gross"} :
     \E e \in 1..Len(result.errors) :
       \E k \in 1..Len(result.errors[e].names) : result.errors[e].names[k] = Label(f)}

\* C4: when the upload is aborted for unresolved mandatory fields, the error
\* names every mandatory field that is missing from the first row's headers.
C4_EveryMissingFieldNamed ==
  LET map == HeaderMap
  IN (Done /\ HasRows /\ Len(result.errors) > 0) =>
       \A f \in UnresolvedStr(map) \cup (IF GrossUnresolved(map) THEN {"gross"} ELSE {}) :
         f \in NamedFields

\* C5: in every returned row each discount and rebate component is >= 0 and
\* is the absolute value of the number parsed from its cell (0 when the
\* field's header is unresolved).
C5_DiscountsRebatesNonNegative ==
  LET map == HeaderMap
  IN Processed(map) =>
       \A i \in 1..Len(result.rows) : \A id \in Discounts \cup Rebates :
         /\ result.rows[i].num[id] >= 0
         /\ result.rows[i].num[id] = Abs(Parsed(map, i, id))
         /\ map.numMap[id] = "" => result.rows[i].num[id] = 0

\* a row with a negative discount and a negative rebate cell, in a sheet with
\* an unresolved discount column
C5_Witness ==
  LET map == HeaderMap
  IN /\ Processed(map)
     /\ \E i \in 1..Len(result.rows) :
          /\ Parsed(map, i, "d_channel") < 0
          /\ Parsed(map, i, "r_direct") < 0
          /\ result.rows[i].num["r_direct"] > 0
     /\ map.numMap["d_customer"] = ""

\* C6: correctedCount is the sum over the input rows of the number of
\* discount/rebate fields parsed negative, plus one per invoiced derivation,
\* plus one per net derivation; a row with a sign-corrected field yields
\* exactly one sign warning, listing exactly the corrected fields, and a row
\* without one yields none.
C6_CorrectedCount ==
  LET map == HeaderMap
      perRow == [i \in 1..Len(result.rows) |->
                   Cardinality(NegativeFields(map, i))
                     + (IF InvoicedMissing(map, i) THEN 1 ELSE 0)
                     + (IF NetMissing(map, i) THEN 1 ELSE 0)]
  IN Processed(map) =>
       /\ result.correctedCount = SumFn(perRow, Len(result.rows))
       /\ \A i \in 1..Len(result.rows) :
            IF NegativeFields(map, i) = {} THEN WarningsOf(i, "sign") = {}
            ELSE /\ Cardinality(WarningsOf(i, "sign")) = 1
                 /\ \A j \in WarningsOf(i, "sign") :
                      /\ {result.warnings[j].fields[k] : k \in 1..Len(result.warnings[j].fields)}
                           = NegativeFields(map, i)
                      /\ Len(result.warnings[j].fields) = Cardinality(NegativeFields(map, i))

\* two rows, one with three sign-corrected fields, and derivations as well
C6_Witness ==
  LET map == HeaderMap
  IN /\ Processed(map)
     /\ Len(result.rows) = 2
     /\ \E i \in 1..2 : Cardinality(NegativeFields(map, i)) = 3
     /\ \E i \in 1..2 : InvoicedMissing(map, i) /\ NetMissing(map, i)
     /\ result.correctedCount >= 5

\* C7: per row and per balance check there is no warning when the actual
\* value is within max(50, 2 percent of the larger magnitude) of the expected
\* one, and exactly one warning otherwise; the row is kept either way.
C7_BalanceTolerance ==
  LET map == HeaderMap
  IN Processed(map) =>
       /\ Len(result.rows) = Len(rawRows)
       /\ \A i \in 1..Len(result.rows) :
            LET num == result.rows[i].num
            IN /\ Cardinality(WarningsOf(i, "invoicedBalance")) =
                    (IF WithinTolerance(num["invoiced"], num["gross"] - RowDiscounts(i)) THEN 0 ELSE 1)
               /\ Cardinality(WarningsOf(i, "netBalance")) =
                    (IF WithinTolerance(num["net"], num["invoiced"] - RowRebates(i) + RowIncome(i))
                     THEN 0 ELSE 1)

\* a row off by exactly 50 on invoiced without an invoiced warning but with a
\* net warning, and a row off by exactly 2 percent, more than 50, without an
\* invoiced warning
C7_Witness ==
  /\ Processed(HeaderMap)
  /\ Len(result.rows) = 2
  /\ \E i \in 1..2 :
       /\ Abs(result.rows[i].num["invoiced"] - (result.rows[i].num["gross"] - RowDiscounts(i))) = 50 * Scale
       /\ WarningsOf(i, "invoicedBalance") = {}
       /\ WarningsOf(i, "netBalance") # {}
  /\ \E i \in 1..2 :
       /\ Abs(result.rows[i].num["invoiced"] - (result.rows[i].num["gross"] - RowDiscounts(i))) = 200 * Scale
       /\ WarningsOf(i, "invoicedBalance") = {}

\* C8: a row whose invoiced is absent or parses to zero while gross or the
\* sign-corrected discounts are non-zero gets invoiced = gross - total
\* discounts, one correction and one warning citing the derived value; any
\* other row keeps invoiced as parsed, without a derivation warning.
C8_InvoicedDerivation ==
  LET map == HeaderMap
      perRow == [i \in 1..Len(result.rows) |->
                   Cardinality(NegativeFields(map, i))
                     + (IF InvoicedMissing(map, i) THEN 1 ELSE 0)
                     + Cardinality(WarningsOf(i, "netDerived"))]
  IN Processed(map) =>
       /\ result.correctedCount = SumFn(perRow, Len(result.rows))
       /\ \A i \in 1..Len(result.rows) :
            IF InvoicedMissing(map, i)
            THEN /\ result.rows[i].num["invoiced"] = result.rows[i].num["gross"] - RowDiscounts(i)
                 /\ Cardinality(WarningsOf(i, "invoicedDerived")) = 1
                 /\ \A j \in WarningsOf(i, "invoicedDerived") :
                      result.warnings[j].amount = toFixed0(result.rows[i].num["gross"] - RowDiscounts(i))
            ELSE /\ result.rows[i].num["invoiced"] = Parsed(map, i, "invoiced")
                 /\ WarningsOf(i, "invoicedDerived") = {}

\* gross 1000, channel discount 100, customer discount 50, no invoiced column:
\* invoiced is 850 and the warning cites 850
C8_Witness ==
  LET map == HeaderMap
  IN /\ Processed(map)
     /\ map.numMap["invoiced"] = ""
     /\ \E i \in 1..Len(result.rows) :
          /\ result.rows[i].num["gross"] = 1000 * Scale
          /\ result.rows[i].num["d_channel"] = 100 * Scale
          /\ result.rows[i].num["d_customer"] = 50 * Scale
          /\ RowDiscounts(i) = 150 * Scale
          /\ result.rows[i].num["invoiced"] = 850 * Scale
          /\ \E j \in WarningsOf(i, "invoicedDerived") : result.warnings[j].amount = 850

\* C9: a row whose net is absent or parses to zero while its final invoiced,
\* its rebates or its income are non-zero gets net = invoiced - total rebates
\* + total income from the final invoiced, one correction and one warning;
\* any other row keeps net as parsed.
C9_NetDerivation ==
  LET map == HeaderMap
      perRow == [i \in 1..Len(result.rows) |->
                   Cardinality(NegativeFields(map, i))
                     + Cardinality(WarningsOf(i, "invoicedDerived"))
                     + (IF NetMissing(map, i) THEN 1 ELSE 0)]
  IN Processed(map) =>
       /\ result.correctedCount = SumFn(perRow, Len(result.rows))
       /\ \A i \in 1..Len(result.rows) :
            IF NetMissing(map, i)
            THEN /\ result.rows[i].num["net"] =
                      result.rows[i].num["invoiced"] - RowRebates(i) + RowIncome(i)
                 /\ Cardinality(WarningsOf(i, "netDerived")) = 1
            ELSE /\ result.rows[i].num["net"] = Parsed(map, i, "net")
                 /\ WarningsOf(i, "netDerived") = {}

\* a row whose invoiced and net were both derived, with rebates and income
C9_Witness ==
  LET map == HeaderMap
  IN /\ Processed(map)
     /\ \E i \in 1..Len(result.rows) :
          /\ InvoicedMissing(map, i)
          /\ NetMissing(map, i)
          /\ RowRebates(i) > 0
          /\ RowIncome(i) > 0
          /\ result.rows[i].num["net"] # result.rows[i].num["invoiced"]
          /\ result.rows[i].num["net"] # 0

\* C10 as stated: the period of every returned row is in a canonical format,
\* or it is the trimmed cell value and a period warning names the row and the
\* value; every row is kept.
C10_PeriodCanonicalOrWarned ==
  LET map == HeaderMap
  IN Processed(map) =>
       /\ Len(result.rows) = Len(rawRows)
       /\ \A i \in 1..Len(result.rows) :
            \/ Canonical(result.rows[i].period)
            \/ /\ result.rows[i].period = CellText(map, i, "period")
               /\ \E j \in WarningsOf(i, "period") :
                    result.warnings[j].value = CellText(map, i, "period")

\* C10, amended: a blank period cell gives the empty period without a warning;
\* any other cell gives a period in a canonical format without a warning, or
\* the trimmed cell value with one warning naming the row and the value;
\* every row is kept.
C10_PeriodCanonicalBlankOrWarned ==
  LET map == HeaderMap
  IN Processed(map) =>
       /\ Len(result.rows) = Len(rawRows)
       /\ \A i \in 1..Len(result.rows) :
            IF CellText(map, i, "period") = ""
            THEN result.rows[i].period = "" /\ WarningsOf(i, "period") = {}
            ELSE \/ Canonical(result.rows[i].period) /\ WarningsOf(i, "period") = {}
                 \/ /\ result.rows[i].period = CellText(map, i, "period")
                    /\ Cardinality(WarningsOf(i, "period")) = 1
                    /\ \A j \in WarningsOf(i, "period") :
                         result.warnings[j].value = CellText(map, i, "period")

\* a row with a blank period, kept without a warning, followed by a row with
\* an unrecognizable period, kept with a warning
C10_Witness ==
  LET map == HeaderMap
  IN /\ Processed(map)
     /\ Len(result.rows) = 2
     /\ CellText(map, 1, "period") = ""
     /\ result.rows[1].period = ""
     /\ WarningsOf(1, "period") = {}
     /\ ~Canonical(result.rows[2].period)
     /\ WarningsOf(2, "period") # {}

(***************************************************************************)
(* Observations of a helper call                                           *)
(***************************************************************************)
Returned(fn) == pc = "returned" /\ arg.fn = fn

\* the call was made on the string cell s
CalledOn(s) == arg.v = StrCell(s)

\* the period returned without a warning
Recognized(period) == ret = [value |-> period, warnings |-> <<>>]

\* the text of a cell as parseNumber reads it: trimmed, and whether it is
\* wholly enclosed in parentheses
CellTrimmed(v) == Trim(JSString(v))

IsEnclosed(s) == Len(s) >= 2 /\ Ch(s, 1) = "(" /\ Ch(s, Len(s)) = ")"

Content(s) == SubSeq(s, 2, Len(s) - 1)

\* what is left of the text once everything but digits, separators and minus is dropped
Residue(s) == KeepChars(IF IsEnclosed(s) THEN Content(s) ELSE s, NumChars)

\* the residue read with its rightmost separator as the decimal point and
\* every occurrence of the other separator dropped
LastSeparatorValue(s, neg) ==
  LET k == Max(LastIndexOf(s, ","), LastIndexOf(s, "."))
      other == IF Ch(s, k) = "," THEN "." ELSE ","
  IN IF k = 0 THEN FiniteOrZero(s, neg)
     ELSE FiniteOrZero(Remove(SubSeq(s, 1, k - 1), other) \o "." \o SubSeq(s, k + 1, Len(s)), neg)

C12_SerialPeriodConverted ==
  LET map == HeaderMap
  IN Processed(map) =>
       \A i \in 1..Len(rawRows) :
         LET v == Get(rawRows[i], map.strMap["period"])
         IN (v.t = "number" /\ v.n > 20000 * Scale) =>
              /\ result.rows[i].period = excelSerialToISO(v.n)
              /\ WarningsOf(i, "period") = {}

C14_RightmostSeparatorIsDecimal ==
  Returned("parseNumber") =>
    /\ CalledOn("1,5") => ret = 150
    /\ CalledOn("-1.234,56") => ret = -123456
    /\ CalledOn("-1,234.56") => ret = -123456
    /\ (arg.v.t = "string" /\ arg.v.s # "") =>
         LET s == Residue(CellTrimmed(arg.v))
         IN (~Grouped(s, ".", ",") /\ ~Grouped(s, ",", ".")) =>
              ret = LastSeparatorValue(s, IsEnclosed(CellTrimmed(arg.v)))

\* a negative amount with both separators, outside the grouped patterns
C14_Witness ==
  /\ Returned("parseNumber")
  /\ \/ CalledOn("-1.234,56") /\ ret = -123456
     \/ CalledOn("12,34.5") /\ ret = 123450

\* a cell text without any digit
NoDigits(s) == \A i \in 1..Len(s) : ~IsDigit(Ch(s, i))

\* a minus sign that follows a digit or another minus sign
MisplacedMinus(s) ==
  \E i, j \in 1..Len(s) : i < j /\ (IsDigit(Ch(s, i)) \/ Ch(s, i) = "-") /\ Ch(s, j) = "-"

IsFiniteNumber(n) == n \in Int

\* C15: parseNumber returns a finite number for every cell, a string, a
\* number or a non-finite number; it returns 0 when the text holds no digit or
\* a misplaced minus sign, and for a non-finite number; every numeric field of
\* every row validateAndNormalize returns is a finite number.
C15_ParseNumberTotal ==
  /\ Returned("parseNumber") =>
       /\ IsFiniteNumber(ret)
       /\ arg.v.t = "nan" => ret = 0
       /\ arg.v.t = "number" => ret = arg.v.n
       /\ (arg.v.t = "string" /\ (NoDigits(arg.v.s) \/ MisplacedMinus(arg.v.s))) => ret = 0
  /\ Returned("validateAndNormalize") =>
       \A i \in 1..Len(ret.rows) : \A id \in NumIds : IsFiniteNumber(ret.rows[i].num[id])

\* a text with a misplaced minus sign, and a non-finite number, were parsed
C15_Witness ==
  /\ Returned("parseNumber")
  /\ \/ CalledOn("12-3") /\ ret = 0
     \/ arg.v = NaNCell /\ ret = 0

\* the alias lists of all canonical fields, string and numeric
AliasLists ==
  {STR_FIELDS[key] : key \in DOMAIN STR_FIELDS} \cup {NumDef(id).aliases : id \in NumIds}

\* the header a returned map gives for an alias list, "" when unresolved
ResolvedFor(map, aliases) ==
  IF \E key \in DOMAIN STR_FIELDS : STR_FIELDS[key] = aliases
  THEN map.strMap[CHOOSE key \in DOMAIN STR_FIELDS : STR_FIELDS[key] = aliases]
  ELSE map.numMap[CHOOSE id \in NumIds : NumDef(id).aliases = aliases]

\* C16: a present header resolves a field whenever the header and one of the
\* field's aliases are equal after lower-casing and stripping non-alphanumerics
\* from both, for every alias of the tables.
C16_HeaderMatchesCanonOfAlias ==
  Returned("buildHeaderMap") =>
    \A aliases \in AliasLists : \A k \in 1..Len(aliases) : \A i \in 1..Len(arg.presentHeaders) :
      CANON(arg.presentHeaders[i]) = CANON(aliases[k]) => ResolvedFor(ret, aliases) # ""

\* the positions in an alias list of the aliases some present header canonicalizes to
PresentAliases(presentHeaders, aliases) ==
  {k \in 1..Len(aliases) : \E i \in 1..Len(presentHeaders) : CANON(presentHeaders[i]) = aliases[k]}

\* C17: a field is resolved to a present header that matches the alias
\* earliest in the field's alias list among the aliases present, whatever the
\* order of the headers in the sheet; with no alias present it is unresolved.
C17_EarliestAliasWins ==
  Returned("buildHeaderMap") =>
    \A aliases \in AliasLists :
      LET present == PresentAliases(arg.presentHeaders, aliases)
          header == ResolvedFor(ret, aliases)
      IN IF present = {} THEN header = ""
         ELSE /\ \E i \in 1..Len(arg.presentHeaders) : arg.presentHeaders[i] = header
              /\ CANON(header) = aliases[CHOOSE k \in present : \A j \in present : k <= j]

\* three gross headers were present, the one with the earliest alias last in
\* one sheet and first in another
C17_Witness ==
  /\ Returned("buildHeaderMap")
  /\ \/ arg.presentHeaders = <<"Sum of Gross Sales", "Gross", "GROSS  SALES">>
     \/ arg.presentHeaders = <<"GROSS  SALES", "Gross", "Sum of Gross Sales">>
  /\ ret.numMap["gross"] = "GROSS  SALES"

\* the warnings that cite a row number, in the order of the list
WarningsCiting(warnings, rowNo) == SelectSeq(warnings, LAMBDA w : w.row = rowNo)

\* a row under the keys of the first row: a key it lacks is undefined, a key
\* of its own that the first row lacks is left out
UnderKeysOf(head, r) == [j \in 1..Len(head) |-> [k |-> head[j].k, v |-> Get(r, head[j].k)]]

\* the warnings raised when a row is validated as the only row of a sheet with
\* the keys of this sheet's first row, cited under another row number
WarningsAlone(r, rowNo) ==
  LET alone == validateAndNormalize(<<UnderKeysOf(rawRows[1], r)>>).warnings
  IN [j \in 1..Len(alone) |-> [alone[j] EXCEPT !.row = rowNo]]

\* C18: every warning cites a row number i + 2 of an input row at 0-based
\* index i, and the warnings citing that number are the ones this row raises.
C18_WarningsCiteSheetRow ==
  LET map == HeaderMap
  IN Processed(map) =>
       /\ \A j \in 1..Len(result.warnings) : result.warnings[j].row - 2 \in 0..(Len(rawRows) - 1)
       /\ \A i \in 0..(Len(rawRows) - 1) :
            WarningsCiting(result.warnings, i + 2) = WarningsAlone(rawRows[i + 1], i + 2)

\* two different rows raised warnings, the second row some the first did not
C18_Witness ==
  /\ Processed(HeaderMap)
  /\ Len(rawRows) = 2
  /\ WarningsCiting(result.warnings, 2) # <<>>
  /\ \E j \in 1..Len(result.warnings) :
       /\ result.warnings[j].row = 3
       /\ \A k \in 1..Len(result.warnings) :
            result.warnings[k].row = 2 => result.warnings[k].kind # result.warnings[j].kind

\* C19: every amount of every returned row is non-negative: gross, the
\* discounts, invoiced, the rebates, the incomes and net.
C19_AllAmountsNonNegative ==
  LET map == HeaderMap
  IN Processed(map) =>
       \A i \in 1..Len(result.rows) : \A id \in NumIds : result.rows[i].num[id] >= 0

(***************************************************************************)
(* Observations of the waterfall page                                      *)
(***************************************************************************)
\* the page has rendered a non-empty dataset
Aggregated == pc = "rendered" /\ Len(wfRows) > 0

\* the eight discount components of a row
EightDiscounts(row) ==
  LET Component(id) == OrZero(row, id)
  IN Component("d_channel") + Component("d_customer") + Component("d_product") + Component("d_volume")
       + Component("d_value") + Component("d_other_sales") + Component("d_mandatory") + Component("d_local")

\* C20: the total-discount grand total is the sum over the rows of all eight
\* discount components, there are eight bucket totals, and the bucket totals
\* add up to the grand total.
C20_TotalDiscountOverEightBuckets ==
  Aggregated =>
    /\ wfBase.totalDisc = Total([i \in 1..Len(wfRows) |-> EightDiscounts(wfRows[i])])
    /\ Len(wfBase.buckets) = 8
    /\ Total([i \in 1..Len(wfBase.buckets) |-> wfBase.buckets[i].value]) = wfBase.totalDisc

Emptied == pc = "rendered" /\ Len(wfRows) = 0

\* a quotient that is a number: no division by zero made it
Finite(q) == q.den # 0

IsZero(q) == q.num = 0 /\ q.den # 0

Entries(list) == {list[i] : i \in 1..Len(list)}

(***************************************************************************)
(* C21: no share or percentage of the page comes from a division by zero:  *)
(* every bucket share is 0 when the gross grand total is 0, every          *)
(* per-customer and per-SKU percentage (and the deviation or flag with it) *)
(* is 0 when the gross of its own group is 0, the overall percentage       *)
(* inside the deviations is 0 when the grand total is 0, and for an empty  *)
(* row set the page shows its notice and computes no totals at all.        *)
(***************************************************************************)
C21_ZeroDenominatorGivesZero ==
  /\ Emptied => wfBase = EmptyPage /\ adj = NoScenario
  /\ Aggregated =>
       /\ \A b \in Entries(wfBase.buckets) :
            Finite(b.share) /\ (wfBase.gross = 0 => IsZero(b.share))
       /\ \A c \in Entries(wfBase.topCustomers) :
            /\ Finite(c.pct) /\ Finite(c.delta)
            /\ c.gross = 0 => IsZero(c.pct) /\ IsZero(c.delta)
            /\ wfBase.gross = 0 => c.delta = c.pct
       /\ \A k \in Entries(wfBase.topSkus) :
            /\ Finite(k.pct)
            /\ k.gross = 0 => IsZero(k.pct) /\ ~k.flag
            /\ wfBase.gross = 0 /\ k.gross # 0 => (k.flag <=> RatioGeq(k.pct, Ratio(FlagMargin, 1)))

\* a dataset with discounts whose gross cancels to 0 over rows of two customers
C21_Witness ==
  /\ Aggregated /\ wfBase.gross = 0 /\ wfBase.totalDisc > 0
  /\ \E c \in Entries(wfBase.topCustomers) : c.gross # 0 /\ c.disc > 0
  /\ \E b \in Entries(wfBase.buckets) : b.value > 0

\* C21 as stated: with a gross grand total of 0 every share and every percentage
\* is 0, and an empty row set has invoiced and net of 0
C21_GrandTotalZeroGivesZero ==
  /\ Emptied => "invoiced" \in DOMAIN wfBase /\ "net" \in DOMAIN wfBase
                  /\ wfBase.invoiced = 0 /\ wfBase.net = 0
  /\ Aggregated /\ wfBase.gross = 0 =>
       /\ \A b \in Entries(wfBase.buckets) : IsZero(b.share)
       /\ \A c \in Entries(wfBase.topCustomers) : IsZero(c.pct)
       /\ \A k \in Entries(wfBase.topSkus) : IsZero(k.pct)

(***************************************************************************)
(* Observations of the scenario panel                                      *)
(***************************************************************************)
\* the sum of the amounts of a table of totals
RECURSIVE SumOf(_, _)
SumOf(table, fields) ==
  IF fields = {} THEN 0
  ELSE LET f == CHOOSE x \in fields : TRUE IN table[f] + SumOf(table, fields \ {f})

FloorZero(x) == IF x > 0 THEN x ELSE 0

\* the totals of the rows, summed row by row
RowsGross == Total([i \in 1..Len(wfRows) |-> OrZero(wfRows[i], "gross")])

RowsDiscounts == Total([i \in 1..Len(wfRows) |-> sumDiscounts(wfRows[i])])

RowsRebates == Total([i \in 1..Len(wfRows) |-> sumRebates(wfRows[i])])

(***************************************************************************)
(* C22: for every dataset invoiced is max(0, gross - total discounts) and  *)
(* net is max(0, invoiced - total rebates), with the page's own totals, so *)
(* neither is negative; the same holds for the adjusted invoiced and net   *)
(* of every scenario, whose total discounts are the adjusted ones.         *)
(***************************************************************************)
C22_InvoicedAndNetFloored ==
  Aggregated =>
    /\ wfBase.invoiced = FloorZero(RowsGross - RowsDiscounts)
    /\ wfBase.net = FloorZero(wfBase.invoiced - RowsRebates)
    /\ wfBase.invoiced >= 0 /\ wfBase.net >= 0
    /\ adj.invoicedAdj = FloorZero(Fine(RowsGross) - SumOf(adj.dAdj, DOMAIN adj.dAdj))
    /\ adj.netAdj = FloorZero(adj.invoicedAdj - Fine(RowsRebates))
    /\ adj.invoicedAdj >= 0 /\ adj.netAdj >= 0

\* discounts above gross, under a scenario with a tweak
C22_Witness ==
  /\ Aggregated /\ TweaksActive(adj)
  /\ RowsDiscounts > RowsGross /\ RowsGross > 0
  /\ SumOf(adj.dAdj, DOMAIN adj.dAdj) > Fine(RowsGross)
  /\ wfBase.invoiced = 0 /\ adj.invoicedAdj = 0

\* rebates above a positive invoiced, before and under a scenario
RebatesAboveInvoiced ==
  /\ Aggregated /\ TweaksActive(adj)
  /\ wfBase.invoiced > 0 /\ RowsRebates > wfBase.invoiced /\ wfBase.net = 0
  /\ adj.invoicedAdj > 0 /\ adj.netAdj = 0

\* the rows' total of one discount or rebate component
RowsTotal(field) == Total([i \in 1..Len(wfRows) |-> OrZero(wfRows[i], field)])

EightDiscountFields ==
  {"d_channel", "d_customer", "d_product", "d_volume", "d_value", "d_other_sales", "d_mandatory", "d_local"}

FiveRebateFields == {"r_direct", "r_prompt", "r_indirect", "r_mandatory", "r_local"}

\* steps from..to are decrements, one for each of the fields, each the negated
\* total of its field (times unit, the units of the sequence)
OneDecrementPerField(steps, from, to, fields, unit) ==
  /\ to <= Len(steps)
  /\ \A i \in from..to : steps[i].kind = "neg"
  /\ \E at \in [fields -> from..to] :
       /\ \A f, g \in fields : f # g => at[f] # at[g]
       /\ \A f \in fields : steps[at[f]].value = -(RowsTotal(f) * unit)

FixedShape(steps, unit) ==
  /\ Len(steps) = 1 + 8 + 1 + 5 + 1
  /\ steps[1].kind = "pos-start" /\ steps[1].value = RowsGross * unit
  /\ OneDecrementPerField(steps, 2, 9, EightDiscountFields, unit)
  /\ steps[10].kind = "subtotal" /\ steps[10].label = "Invoiced"
  /\ OneDecrementPerField(steps, 11, 15, FiveRebateFields, unit)
  /\ steps[16].kind = "subtotal" /\ steps[16].label = "Net"

(***************************************************************************)
(* C23: the step sequence of the baseline, and of a scenario without       *)
(* tweaks, is the start step carrying gross, one decrement for each of the *)
(* eight discount categories, the Invoiced subtotal, one decrement for     *)
(* each of the five rebate categories and the Net subtotal, every          *)
(* decrement being the negated total of its category.                      *)
(***************************************************************************)
C23_StepsHaveFixedShape ==
  Aggregated =>
    /\ FixedShape(wfBase.steps, 1)
    /\ ~TweaksActive(adj) => FixedShape(adj.stepsAdj, TweakScale)

\* the customers and SKUs of the rows, a blank one under the page's placeholder
GroupsOf(field) == {KeyOr(wfRows[i], field) : i \in 1..Len(wfRows)}

GroupDisc(field, key) ==
  Total([i \in 1..Len(wfRows) |-> IF KeyOr(wfRows[i], field) = key THEN sumDiscounts(wfRows[i]) ELSE 0])

GroupGross(field, key) ==
  Total([i \in 1..Len(wfRows) |-> IF KeyOr(wfRows[i], field) = key THEN OrZero(wfRows[i], "gross") ELSE 0])

\* a top list of the groups of field: at most three entries, by descending
\* discount, none smaller than an omitted group, each with the sums of its
\* rows, its percentage and its deviation from the overall percentage
IsTopList(list, field) ==
  /\ Len(list) <= 3
  /\ \A i, j \in 1..Len(list) : i < j => list[i].disc >= list[j].disc /\ list[i][field] # list[j][field]
  /\ \A e \in Entries(list) :
       /\ e[field] \in GroupsOf(field)
       /\ e.disc = GroupDisc(field, e[field]) /\ e.gross = GroupGross(field, e[field])
       /\ \A key \in GroupsOf(field) :
            (\A o \in Entries(list) : o[field] # key) => GroupDisc(field, key) <= e.disc
       /\ "pct" \in DOMAIN e /\ e.pct = Percent(e.disc, e.gross)
       /\ "delta" \in DOMAIN e
       /\ e.gross # 0 => e.delta = RatioMinus(e.pct, Percent(wfBase.totalDisc, wfBase.gross))
  /\ Len(list) = IF Cardinality(GroupsOf(field)) < 3 THEN Cardinality(GroupsOf(field)) ELSE 3

(***************************************************************************)
(* C24: the top-customer list and the top-SKU list each hold at most three *)
(* entries in descending order of discount, omit no group with a greater   *)
(* discount than a listed one, give each entry the discount and gross      *)
(* summed over the rows of its customer or SKU, and give every entry of    *)
(* both lists its percentage and its deviation from the overall one.       *)
(***************************************************************************)
C24_TopListsRankedAndAnnotated ==
  Aggregated => IsTopList(wfBase.topCustomers, "cust") /\ IsTopList(wfBase.topSkus, "sku")

\* the customer list by itself
TopCustomersRanked == Aggregated => IsTopList(wfBase.topCustomers, "cust")

\* the entries of the SKU list carry a flag and no deviation
TopSkusFlagged ==
  Aggregated => \A k \in Entries(wfBase.topSkus) : DOMAIN k = {"sku", "disc", "gross", "pct", "flag"}

FourCustomers == Aggregated /\ Cardinality(GroupsOf("cust")) > 3

\* the totals of base are the totals of the rows
BaseOfRows ==
  /\ wfBase.gross = RowsGross /\ wfBase.totalDisc = RowsDiscounts /\ wfBase.totalReb = RowsRebates
  /\ \A f \in DOMAIN DiscountBuckets : wfBase.d[f] = RowsTotal(DiscountBuckets[f])
  /\ \A f \in DOMAIN RebateBuckets : wfBase.r[f] = RowsTotal(RebateBuckets[f])
  /\ wfBase.invoiced = FloorZero(RowsGross - RowsDiscounts)
  /\ wfBase.net = FloorZero(wfBase.invoiced - RowsRebates)

\* adj is the baseline: every adjusted bucket is the rows' total, no uplift
ReproducesBaseline ==
  /\ \A f \in DOMAIN DiscountBuckets : adj.dAdj[f] = Fine(RowsTotal(DiscountBuckets[f]))
  /\ adj.netUplift = 0
  /\ adj.stepsAdj = FineSteps(wfBase.steps)

(***************************************************************************)
(* C25: computing a scenario changes neither the row array nor the totals  *)
(* of base (gross, bucket totals, rebate totals, invoiced, net), and a     *)
(* scenario whose fractions are all zero (or absent) reproduces the        *)
(* baseline, every adjusted bucket being its base bucket and the uplift 0, *)
(* also after scenarios with non-zero fractions.                           *)
(***************************************************************************)
C25_ScenarioLeavesBaseline ==
  /\ [][Aggregated => wfRows' = wfRows /\ wfBase' = wfBase]_vars
  /\ [](Aggregated => BaseOfRows /\ (~TweaksActive(adj) => ReproducesBaseline))

\* all fractions back at zero after slider moves, on a dataset with discounts
C25_Witness ==
  /\ Aggregated /\ DOMAIN tweaks # {} /\ ~TweaksActive(adj)
  /\ wfBase.totalDisc > 0 /\ wfBase.net > 0

\* a fraction of the vector brought into [0, 0.2], an absent one being 0
Clamped(tw, key) ==
  LET v == IF key \in DOMAIN tw THEN tw[key] ELSE 0
  IN IF v < 0 THEN 0 ELSE IF v > MaxTweak THEN MaxTweak ELSE v

(***************************************************************************)
(* C26: for every fraction vector each fraction of adj is the vector's,    *)
(* clamped to [0, 0.2]; each adjusted discount bucket is its base bucket   *)
(* times (1 - fraction); the adjusted invoiced is max(0, base gross -      *)
(* adjusted discounts) and the adjusted net max(0, adjusted invoiced -     *)
(* base rebates), the rebate steps being those of base; and the uplift is  *)
(* the adjusted net minus the base net.                                    *)
(***************************************************************************)
C26_AdjustedFromClampedFractions ==
  Returned("adj") =>
    LET base == Base(arg.rows)
    IN /\ \A k \in BucketKeys : ret.t[k] = Clamped(arg.tweaks, k) /\ ret.t[k] \in 0..MaxTweak
       /\ \A f \in DOMAIN base.d :
            ret.dAdj[f] = base.d[f] * (TweakScale - Clamped(arg.tweaks, BucketOf[f]))
       /\ ret.invoicedAdj = FloorZero(Fine(base.gross) - SumOf(ret.dAdj, DOMAIN ret.dAdj))
       /\ ret.netAdj = FloorZero(ret.invoicedAdj - Fine(base.totalReb))
       /\ \A i \in 11..15 : ret.stepsAdj[i].value = Fine(base.steps[i].value)
       /\ ret.stepsAdj[1].value = Fine(base.gross)
       /\ ret.netUplift = ret.netAdj - Fine(base.net)

\* a vector with a fraction above 0.2 and one below 0, on buckets with discounts
C26_Witness ==
  /\ Returned("adj")
  /\ \E k, l \in DOMAIN arg.tweaks :
       /\ arg.tweaks[k] > MaxTweak /\ arg.tweaks[l] < 0
       /\ \E f, g \in DOMAIN ret.dAdj :
            BucketOf[f] = k /\ BucketOf[g] = l /\ ret.dAdj[f] > 0 /\ ret.dAdj[g] > 0
  /\ ret.netUplift > 0

\* row i validated as the only row of a sheet with the keys of the first row
Alone(i) == validateAndNormalize(<<UnderKeysOf(rawRows[1], rawRows[i])>>)

Ragged == \E i \in 2..Len(rawRows) : Keys(rawRows[i]) # Keys(rawRows[1])

(***************************************************************************)
(* C27: the output row, the warnings and the correction count that a row   *)
(* contributes are those of the row validated by itself under the keys of  *)
(* the first row, so they do not depend on the cells of any other row; a   *)
(* column that only a later row has is not read, and a column of the first *)
(* row that a later row lacks reads as blank in that row.                  *)
(***************************************************************************)
C27_RowsIndependent ==
  LET map == HeaderMap
  IN Processed(map) =>
       /\ Len(result.rows) = Len(rawRows)
       /\ LET alone == [i \in 1..Len(rawRows) |-> Alone(i)]
          IN /\ \A i \in 1..Len(rawRows) :
                  /\ result.rows[i] = alone[i].rows[1]
                  /\ WarningsCiting(result.warnings, i + 1)
                       = [j \in 1..Len(alone[i].warnings) |-> [alone[i].warnings[j] EXCEPT !.row = i + 1]]
             /\ result.correctedCount = Total([i \in 1..Len(rawRows) |-> alone[i].correctedCount])

\* a second row with an invoiced cell under a column the first row lacks:
\* the cell is not read, invoiced is derived
C27_Witness ==
  /\ Processed(HeaderMap) /\ Len(rawRows) = 2 /\ Ragged
  /\ HeaderMap.numMap["invoiced"] = ""
  /\ parseNumber(Get(rawRows[2], "Invoiced Sales")) > 0
  /\ result.rows[2].num["invoiced"] # parseNumber(Get(rawRows[2], "Invoiced Sales"))
  /\ WarningsCiting(result.warnings, 3) # <<>> /\ WarningsCiting(result.warnings, 2) # <<>>

\* a second row without the period and channel discount columns of the first
LaterRowLacksColumns ==
  /\ Processed(HeaderMap) /\ Len(rawRows) = 2
  /\ HeaderMap.strMap["period"] # "" /\ Get(rawRows[2], HeaderMap.strMap["period"]) = Undefined
  /\ result.rows[2].period = "" /\ result.rows[2].num["d_channel"] = 0
  /\ Get(rawRows[1], HeaderMap.numMap["d_channel"]) # Undefined

\* the number of warnings of the given kinds that cite the row at index i
CountOf(i, kinds) ==
  Cardinality({j \in 1..Len(result.warnings) :
                 result.warnings[j].row = i + 1 /\ result.warnings[j].kind \in kinds})

(***************************************************************************)
(* C28: in every row a derivation and a balance mismatch of the same field *)
(* exclude each other: a row whose invoiced was derived gets no invoiced   *)
(* balance warning, a row whose net was derived gets no net balance        *)
(* warning; so a row gets at most four warnings: one for the period, one   *)
(* for the sign correction, one for invoiced and one for net.              *)
(***************************************************************************)
C28_DerivedExcludesMismatch ==
  LET map == HeaderMap
  IN Processed(map) =>
       \A i \in 1..Len(rawRows) :
         /\ CountOf(i, {"invoicedDerived"}) > 0 => CountOf(i, {"invoicedBalance"}) = 0
         /\ CountOf(i, {"netDerived"}) > 0 => CountOf(i, {"netBalance"}) = 0
         /\ CountOf(i, {"period"}) <= 1 /\ CountOf(i, {"sign"}) <= 1
         /\ CountOf(i, {"invoicedDerived", "invoicedBalance"}) <= 1
         /\ CountOf(i, {"netDerived", "netBalance"}) <= 1
         /\ Len(WarningsCiting(result.warnings, i + 1)) <= 4

\* a row with four warnings, its invoiced derived and not 0
C28_Witness ==
  /\ Processed(HeaderMap)
  /\ \E i \in 1..Len(rawRows) :
       /\ Len(WarningsCiting(result.warnings, i + 1)) = 4
       /\ CountOf(i, {"invoicedDerived"}) = 1 /\ CountOf(i, {"period"}) = 1 /\ CountOf(i, {"sign"}) = 1
       /\ result.rows[i].num["invoiced"] # 0

\* a row with the net balance warning beside a derived invoiced
DerivedAndOtherMismatch ==
  /\ Processed(HeaderMap)
  /\ \E i \in 1..Len(rawRows) : CountOf(i, {"invoicedDerived"}) = 1 /\ CountOf(i, {"netBalance"}) = 1

\* the canonical fields a returned map resolves, each with its header
ResolvedFields(map) ==
  {<<"str", key>> : key \in {k \in DOMAIN STR_FIELDS : map.strMap[k] # ""}}
    \cup {<<"num", id>> : id \in {n \in NumIds : map.numMap[n] # ""}}

HeaderFor(map, field) == IF field[1] = "str" THEN map.strMap[field[2]] ELSE map.numMap[field[2]]

(***************************************************************************)
(* C29: no header of the sheet is resolved to two canonical fields: the    *)
(* headers chosen for the string fields and for the resolved numeric       *)
(* fields are pairwise distinct.                                           *)
(***************************************************************************)
C29_NoHeaderForTwoFields ==
  Returned("buildHeaderMap") =>
    \A f, g \in ResolvedFields(ret) : f # g => HeaderFor(ret, f) # HeaderFor(ret, g)

\* a sheet whose only customer header is "Customer": customer and customer discount
CustomerUsedTwice ==
  /\ Returned("buildHeaderMap")
  /\ ret.strMap["cust"] = "Customer" /\ ret.numMap["d_customer"] = "Customer"

\* some stored tweak is above 0
SomeTweak == \E k \in DOMAIN tweaks : tweaks[k] > 0

\* the steps of the scenario of the stored tweaks, from the totals of the rows
ScenarioSteps ==
  Steps(Fine(RowsGross),
        [f \in DOMAIN DiscountBuckets |->
           RowsTotal(DiscountBuckets[f]) * (TweakScale - TweakOr(tweaks, BucketOf[f]))],
        [f \in DOMAIN RebateBuckets |-> Fine(RowsTotal(RebateBuckets[f]))])

\* the chart shows the scenario steps exactly when some tweak is above 0
ChartFollowsTweaks ==
  /\ ChartTitle(adj) = IF SomeTweak THEN "(scenario)" ELSE "(baseline)"
  /\ ChartSteps(wfBase, adj) = IF SomeTweak THEN ScenarioSteps ELSE FineSteps(wfBase.steps)

\* a move of the slider of b changes the tweak of b only
OnlyTweakChanged(b) ==
  /\ \A k \in BucketKeys \ {b} :
       /\ k \in DOMAIN tweaks' <=> k \in DOMAIN tweaks
       /\ TweakOr(tweaks', k) = TweakOr(tweaks, k)
  /\ wfBase' = wfBase /\ wfRows' = wfRows

\* after the step all tweaks are zero, with no uplift and the baseline shown
BaselineRestored ==
  /\ \A k \in BucketKeys : TweakOr(tweaks', k) = 0
  /\ adj'.netUplift = 0
  /\ ChartTitle(adj') = "(baseline)"
  /\ ChartSteps(wfBase', adj') = FineSteps(wfBase.steps)

(***************************************************************************)
(* C30: in every run of slider moves and resets each stored tweak lies in  *)
(* [0, 0.2]; a slider move changes the tweak of its bucket only and leaves *)
(* the other tweaks and base as they were; the chart shows the scenario    *)
(* steps exactly when some tweak is above 0 and the baseline steps         *)
(* otherwise; and right after a reset all tweaks are zero, the uplift is 0 *)
(* and the baseline steps are shown.                                       *)
(***************************************************************************)
C30_ScenarioStateMachine ==
  /\ [](Aggregated => (\A k \in DOMAIN tweaks : tweaks[k] \in 0..MaxTweak) /\ ChartFollowsTweaks)
  /\ [][\A b \in BucketKeys : (\E v \in SliderValues : MoveSlider(b, v)) => OnlyTweakChanged(b)]_vars
  /\ [][resetTweaks => BaselineRestored]_vars

\* two sliders were moved, one to a value above its range, with an uplift;
\* a reset is possible from here
C30_Witness ==
  /\ Aggregated
  /\ \E k, l \in DOMAIN tweaks : k # l /\ tweaks[k] = MaxTweak /\ tweaks[l] \in 1..(MaxTweak - 1)
  /\ adj.netUplift > 0
  /\ ChartTitle(adj) = "(scenario)"

\* a tweak on a bucket without discounts: the scenario is shown without uplift
TweakWithoutEffect == Aggregated /\ SomeTweak /\ adj.netUplift = 0 /\ wfBase.totalDisc > 0

====
